---- MODULE Spec2Model ----
(***************************************************************************)
(* The validated generation pipeline of the backend: the benchmark and     *)
(* review routes, callLLM (retry with exponential backoff), and the output *)
(* validators (JSON.parse + schema check + one corrective re-prompt).      *)
(*                                                                         *)
(* Strings are modelled as Text: a sequence of fragments, concatenated     *)
(* with \o.  A raw generation output is a sequence of lexical tokens, one  *)
(* token standing for one unit of the offending text.                      *)
(***************************************************************************)
EXTENDS Integers, Sequences, FiniteSets, TLC

\* ------------------------------------------------------------------ constants
\* Mutants of MAX_RETRIES: one attempt more, one attempt less.
MAX_RETRIES_OneMore == 3 + 1
MAX_RETRIES_Two == 3 - 1

MAX_RETRIES == 3
BASE_DELAY_MS == 1000
VALIDATION_ATTEMPTS == 2

\* Number of requests the server handles one after the other in the model.
MaxRequests == 2

\* Longest list of deviations or findings in the payloads handed to a
\* validator called on its own.
MaxItems == 2

RECURSIVE Pow2(_)
Pow2(n) == IF n <= 0 THEN 1 ELSE 2 * Pow2(n - 1)

\* ------------------------------------------------------------------ tokens
\* A token of a raw output: punctuation, a string literal, a number literal,
\* the literals null/true/false, or a word of prose that is no JSON token.
P(s) == [t |-> "p", s |-> s, n |-> 0]
S(s) == [t |-> "str", s |-> s, n |-> 0]
N(n) == [t |-> "num", s |-> "", n |-> n]
NullTok == [t |-> "null", s |-> "", n |-> 0]
BoolTok(b) == [t |-> "bool", s |-> b, n |-> 0]
W(s) == [t |-> "word", s |-> s, n |-> 0]

\* ------------------------------------------------------------------ JSON values
\* A parsed value.  items holds the elements of an array, or the members
\* [k, v] of an object in the order they were written.
NullV == [t |-> "null", n |-> 0, s |-> "", items |-> <<>>]
UndefinedV == [t |-> "undefined", n |-> 0, s |-> "", items |-> <<>>]
NumV(n) == [t |-> "number", n |-> n, s |-> "", items |-> <<>>]
StrV(s) == [t |-> "string", n |-> 0, s |-> s, items |-> <<>>]
BoolV(b) == [t |-> "boolean", n |-> 0, s |-> b, items |-> <<>>]
ArrV(elems) == [t |-> "array", n |-> 0, s |-> "", items |-> elems]
ObjV(members) == [t |-> "object", n |-> 0, s |-> "", items |-> members]
M(k, v) == [k |-> k, v |-> v]

\* obj[key] of JavaScript: the last member written under the key, else undefined.
RECURSIVE GetFrom(_, _, _)
GetFrom(members, key, i) ==
  IF i = 0 THEN UndefinedV
  ELSE IF members[i].k = key THEN members[i].v
  ELSE GetFrom(members, key, i - 1)

Get(obj, key) == GetFrom(obj.items, key, Len(obj.items))

\* ------------------------------------------------------------------ JSON.parse
ParseFail == [ok |-> FALSE, v |-> NullV, next |-> 0]
ParseOk(v, next) == [ok |-> TRUE, v |-> v, next |-> next]

\* An object keeps one member per key: a repeated key overwrites the value
\* and keeps the position of its first occurrence.
RECURSIVE PutMember(_, _, _, _)
PutMember(members, k, v, i) ==
  IF i > Len(members) THEN Append(members, M(k, v))
  ELSE IF members[i].k = k THEN [members EXCEPT ![i] = M(k, v)]
  ELSE PutMember(members, k, v, i + 1)

RECURSIVE ParseValue(_, _), ParseElements(_, _, _), ParseMembers(_, _, _)
ParseValue(toks, i) ==
  IF i > Len(toks) THEN ParseFail
  ELSE LET tk == toks[i] IN
    CASE tk.t = "null" -> ParseOk(NullV, i + 1)
      [] tk.t = "num" -> ParseOk(NumV(tk.n), i + 1)
      [] tk.t = "str" -> ParseOk(StrV(tk.s), i + 1)
      [] tk.t = "bool" -> ParseOk(BoolV(tk.s), i + 1)
      [] tk = P("[") ->
           IF i + 1 <= Len(toks) /\ toks[i + 1] = P("]")
           THEN ParseOk(ArrV(<<>>), i + 2)
           ELSE ParseElements(toks, i + 1, <<>>)
      [] tk = P("{") ->
           IF i + 1 <= Len(toks) /\ toks[i + 1] = P("}")
           THEN ParseOk(ObjV(<<>>), i + 2)
           ELSE ParseMembers(toks, i + 1, <<>>)
      [] OTHER -> ParseFail

ParseElements(toks, i, acc) ==
  LET r == ParseValue(toks, i) IN
    IF ~r.ok \/ r.next > Len(toks) THEN ParseFail
    ELSE IF toks[r.next] = P(",") THEN ParseElements(toks, r.next + 1, Append(acc, r.v))
    ELSE IF toks[r.next] = P("]") THEN ParseOk(ArrV(Append(acc, r.v)), r.next + 1)
    ELSE ParseFail

ParseMembers(toks, i, acc) ==
  IF i + 1 > Len(toks) \/ toks[i].t # "str" \/ toks[i + 1] # P(":") THEN ParseFail
  ELSE LET r == ParseValue(toks, i + 2) IN
    IF ~r.ok \/ r.next > Len(toks) THEN ParseFail
    ELSE LET acc2 == PutMember(acc, toks[i].s, r.v, 1) IN
      IF toks[r.next] = P(",") THEN ParseMembers(toks, r.next + 1, acc2)
      ELSE IF toks[r.next] = P("}") THEN ParseOk(ObjV(acc2), r.next + 1)
      ELSE ParseFail

\* JSON.parse(raw): ok = FALSE stands for the SyntaxError it throws.
JSONParse(raw) ==
  LET r == ParseValue(raw, 1) IN
    IF r.ok /\ r.next = Len(raw) + 1 THEN [ok |-> TRUE, v |-> r.v]
    ELSE [ok |-> FALSE, v |-> NullV]

\* ------------------------------------------------------------------ JSON.stringify
RECURSIVE JSONStringify(_), StringifyElements(_, _), StringifyMembers(_, _)
JSONStringify(v) ==
  CASE v.t = "null" -> <<NullTok>>
    [] v.t = "number" -> <<N(v.n)>>
    [] v.t = "string" -> <<S(v.s)>>
    [] v.t = "boolean" -> <<BoolTok(v.s)>>
    [] v.t = "array" -> <<P("[")>> \o StringifyElements(v.items, 1) \o <<P("]")>>
    [] v.t = "object" -> <<P("{")>> \o StringifyMembers(v.items, 1) \o <<P("}")>>

StringifyElements(elems, i) ==
  IF i > Len(elems) THEN <<>>
  ELSE (IF i > 1 THEN <<P(",")>> ELSE <<>>)
       \o JSONStringify(elems[i]) \o StringifyElements(elems, i + 1)

StringifyMembers(members, i) ==
  IF i > Len(members) THEN <<>>
  ELSE (IF i > 1 THEN <<P(",")>> ELSE <<>>)
       \o <<S(members[i].k), P(":")>> \o JSONStringify(members[i].v)
       \o StringifyMembers(members, i + 1)

\* ------------------------------------------------------------------ schemas (zod)
\* A schema: kind, the checks of a number, the values of an enum, and the
\* inner schemas: the element schema of an array, the wrapped schema of an
\* optional, or the fields [k, sch] of an object in the order of its shape.
ZString == [kind |-> "string", checks |-> <<>>, values |-> <<>>, fields |-> <<>>]
ZNumber == [kind |-> "number", checks |-> <<>>, values |-> <<>>, fields |-> <<>>]
ZMin(sch, lo) == [sch EXCEPT !.checks = Append(@, [c |-> "min", n |-> lo])]
ZMax(sch, hi) == [sch EXCEPT !.checks = Append(@, [c |-> "max", n |-> hi])]
ZEnum(values) == [kind |-> "enum", checks |-> <<>>, values |-> values, fields |-> <<>>]
F(k, sch) == [k |-> k, sch |-> sch]
ZOptional(sch) == [kind |-> "optional", checks |-> <<>>, values |-> <<>>, fields |-> <<F("", sch)>>]
ZArray(sch) == [kind |-> "array", checks |-> <<>>, values |-> <<>>, fields |-> <<F("", sch)>>]
ZObject(fields) == [kind |-> "object", checks |-> <<>>, values |-> <<>>, fields |-> fields]

SEVERITIES == <<"critical", "major", "minor", "info">>
DEVIATION_TYPES == <<"missing", "weaker", "stronger", "different", "ok">>
RISK_CATEGORIES ==
  <<"liability", "termination", "intellectual_property", "confidentiality", "payment",
    "data_protection", "governing_law", "indemnification", "non_compete", "general">>

ClauseDeviationSchema ==
  ZObject(<<F("clauseTitle", ZString),
            F("documentExcerpt", ZString),
            F("standardExcerpt", ZString),
            F("deviationType", ZEnum(DEVIATION_TYPES)),
            F("severity", ZEnum(SEVERITIES)),
            F("explanation", ZString),
            F("suggestedFix", ZOptional(ZString)),
            F("locationHint", ZString)>>)

BenchmarkResultSchema ==
  ZObject(<<F("alignmentScore", ZMax(ZMin(ZNumber, 0), 100)),
            F("totalClauses", ZNumber),
            F("deviations", ZArray(ClauseDeviationSchema)),
            F("summary", ZString),
            F("playbook", ZString)>>)

RiskFindingSchema ==
  ZObject(<<F("title", ZString),
            F("riskCategory", ZEnum(RISK_CATEGORIES)),
            F("severity", ZEnum(SEVERITIES)),
            F("documentExcerpt", ZString),
            F("explanation", ZString),
            F("suggestedAlternative", ZOptional(ZString)),
            F("locationHint", ZString)>>)

ReviewResultSchema ==
  ZObject(<<F("riskScore", ZMax(ZMin(ZNumber, 0), 100)),
            F("totalFindings", ZNumber),
            F("findings", ZArray(RiskFindingSchema)),
            F("summary", ZString),
            F("documentType", ZString)>>)

\* ------------------------------------------------------------------ safeParse
Issue(path, message) == [path |-> path, message |-> message]

\* 'a' | 'b' | ... as zod writes the values of an enum.
RECURSIVE JoinValues(_, _)
JoinValues(values, i) ==
  IF i > Len(values) THEN <<>>
  ELSE (IF i > 1 THEN <<" | ">> ELSE <<>>) \o <<"'", values[i], "'">>
       \o JoinValues(values, i + 1)

InvalidType(expected, v, path) ==
  Issue(path, IF v.t = "undefined" THEN <<"Required">>
              ELSE <<"Expected ">> \o expected \o <<", received ", v.t>>)

RECURSIVE CheckNumberChecks(_, _, _, _)
CheckNumberChecks(checks, v, path, i) ==
  IF i > Len(checks) THEN <<>>
  ELSE (IF checks[i].c = "min" /\ v.n < checks[i].n
        THEN <<Issue(path, <<"Number must be greater than or equal to ", ToString(checks[i].n)>>)>>
        ELSE IF checks[i].c = "max" /\ v.n > checks[i].n
        THEN <<Issue(path, <<"Number must be less than or equal to ", ToString(checks[i].n)>>)>>
        ELSE <<>>)
       \o CheckNumberChecks(checks, v, path, i + 1)

InValues(values, s) == \E i \in 1..Len(values) : values[i] = s

\* The issues of sch.safeParse(v), in the order zod reports them: the fields
\* of an object in the order of its shape, the elements of an array in order.
RECURSIVE CheckValue(_, _, _), CheckFields(_, _, _, _), CheckItems(_, _, _, _)
CheckValue(sch, v, path) ==
  CASE sch.kind = "optional" ->
         IF v.t = "undefined" THEN <<>> ELSE CheckValue(sch.fields[1].sch, v, path)
    [] sch.kind = "string" ->
         IF v.t = "string" THEN <<>> ELSE <<InvalidType(<<"string">>, v, path)>>
    [] sch.kind = "number" ->
         IF v.t = "number" THEN CheckNumberChecks(sch.checks, v, path, 1)
         ELSE <<InvalidType(<<"number">>, v, path)>>
    [] sch.kind = "enum" ->
         IF v.t # "string" THEN <<InvalidType(JoinValues(sch.values, 1), v, path)>>
         ELSE IF InValues(sch.values, v.s) THEN <<>>
         ELSE <<Issue(path, <<"Invalid enum value. Expected ">> \o JoinValues(sch.values, 1)
                              \o <<", received '", v.s, "'">>)>>
    [] sch.kind = "array" ->
         IF v.t = "array" THEN CheckItems(sch.fields[1].sch, v.items, path, 1)
         ELSE <<InvalidType(<<"array">>, v, path)>>
    [] sch.kind = "object" ->
         IF v.t = "object" THEN CheckFields(sch.fields, v, path, 1)
         ELSE <<InvalidType(<<"object">>, v, path)>>

CheckFields(fields, v, path, i) ==
  IF i > Len(fields) THEN <<>>
  ELSE CheckValue(fields[i].sch, Get(v, fields[i].k), Append(path, fields[i].k))
       \o CheckFields(fields, v, path, i + 1)

\* Mutant of CheckItems: only the first element is checked.
CheckItems_FirstOnly(sch, items, path, i) ==
  IF i > 1 \/ i > Len(items) THEN <<>>
  ELSE CheckValue(sch, items[i], Append(path, ToString(i - 1)))

CheckItems(sch, items, path, i) ==
  IF i > Len(items) THEN <<>>
  ELSE CheckValue(sch, items[i], Append(path, ToString(i - 1)))
       \o CheckItems(sch, items, path, i + 1)

HasKey(obj, key) == \E i \in 1..Len(obj.items) : obj.items[i].k = key

\* result.data of a successful safeParse: unknown keys are stripped, the
\* members follow the shape, a key absent from the input stays absent.
RECURSIVE DataOf(_, _)
\* Mutant of DataOf: the optional members are dropped.
DataOf_RequiredOnly(sch, v) ==
  CASE sch.kind = "array" ->
         ArrV([i \in 1..Len(v.items) |-> DataOf(sch.fields[1].sch, v.items[i])])
    [] sch.kind = "object" ->
         LET present == SelectSeq(sch.fields,
                                  LAMBDA f : HasKey(v, f.k) /\ f.sch.kind # "optional") IN
           ObjV([i \in 1..Len(present) |->
                   M(present[i].k, DataOf(present[i].sch, Get(v, present[i].k)))])
    [] OTHER -> v

DataOf(sch, v) ==
  CASE sch.kind = "optional" ->
         IF v.t = "undefined" THEN v ELSE DataOf(sch.fields[1].sch, v)
    [] sch.kind = "array" ->
         ArrV([i \in 1..Len(v.items) |-> DataOf(sch.fields[1].sch, v.items[i])])
    [] sch.kind = "object" ->
         LET present == SelectSeq(sch.fields, LAMBDA f : HasKey(v, f.k)) IN
           ObjV([i \in 1..Len(present) |->
                   M(present[i].k, DataOf(present[i].sch, Get(v, present[i].k)))])
    [] OTHER -> v

SafeParse(sch, v) ==
  LET issues == CheckValue(sch, v, <<>>) IN
    [success |-> issues = <<>>,
     issues |-> issues,
     data |-> IF issues = <<>> THEN DataOf(sch, v) ELSE NullV]

\* ------------------------------------------------------------------ diagnostics
\* path.join(".")
RECURSIVE PathJoin(_, _)
PathJoin(path, i) ==
  IF i > Len(path) THEN <<>>
  ELSE (IF i > 1 THEN <<".">> ELSE <<>>) \o <<path[i]>> \o PathJoin(path, i + 1)

\* issues.map(i => `${i.path.join(".")}: ${i.message}`).join("; ")
RECURSIVE FormatIssues(_, _)
\* Mutant of FormatIssues: only the first issue is reported.
FormatIssues_FirstOnly(issues, i) ==
  IF i > 1 \/ i > Len(issues) THEN <<>>
  ELSE PathJoin(issues[i].path, 1) \o <<": ">> \o issues[i].message

FormatIssues(issues, i) ==
  IF i > Len(issues) THEN <<>>
  ELSE (IF i > 1 THEN <<"; ">> ELSE <<>>)
       \o PathJoin(issues[i].path, 1) \o <<": ">> \o issues[i].message
       \o FormatIssues(issues, i + 1)

\* ------------------------------------------------------------------ playbooks
Clause(title, standardText, importance) ==
  [title |-> title, standardText |-> standardText, importance |-> importance]

\* The in-memory playbook store.  The standard texts are cut after their
\* first words.
PLAYBOOKS ==
  [id \in {"nda-standard", "service-agreement"} |->
     IF id = "nda-standard"
     THEN [id |-> "nda-standard", name |-> "NDA Standard",
           clauses |->
             <<Clause("Definition of Confidential Information",
                      "Confidential Information means any and all non-public information...", "critical"),
               Clause("Obligations of Receiving Party",
                      "The Receiving Party shall: (a) hold Confidential Information...", "critical"),
               Clause("Term and Duration",
                      "This Agreement shall remain in effect for a period of two (2) years...", "major"),
               Clause("Permitted Disclosures",
                      "The Receiving Party may disclose Confidential Information to...", "major"),
               Clause("Return or Destruction",
                      "Upon termination or upon request, the Receiving Party shall...", "minor"),
               Clause("Remedies",
                      "The Parties acknowledge that breach of this Agreement may cause...", "major"),
               Clause("Governing Law",
                      "This Agreement shall be governed by and construed in accordance...", "minor"),
               Clause("Non-Compete / Non-Solicitation",
                      "During the term and for twelve (12) months thereafter, neither...", "major")>>]
     ELSE [id |-> "service-agreement", name |-> "Service Agreement (MSA)",
           clauses |->
             <<Clause("Scope of Services",
                      "The Service Provider shall perform the services as described...", "critical"),
               Clause("Payment Terms",
                      "Client shall pay invoices within thirty (30) days of receipt...", "critical"),
               Clause("Limitation of Liability",
                      "Neither Party's aggregate liability shall exceed the total...", "critical"),
               Clause("Intellectual Property",
                      "All intellectual property created in the performance of services...", "major"),
               Clause("Termination",
                      "Either Party may terminate with sixty (60) days written notice...", "major"),
               Clause("Confidentiality",
                      "Both Parties shall maintain the confidentiality of all non-public...", "major")>>]]

\* getPlaybook(id): PLAYBOOKS[id].  The store is an object literal: besides
\* its own keys the lookup finds what every object inherits, and is
\* undefined for any other id.
HasPlaybook(id) == id \in DOMAIN PLAYBOOKS \cup {"constructor", "toString", "__proto__"}

\* ------------------------------------------------------------------ prompt engine
RECURSIVE ClauseList(_, _)
ClauseList(clauses, i) ==
  IF i > Len(clauses) THEN <<>>
  ELSE (IF i > 1 THEN <<"\n\n">> ELSE <<>>)
       \o <<"### Standard Clause ", ToString(i), ": ", clauses[i].title,
            " [importance: ", clauses[i].importance, "]\n", clauses[i].standardText>>
       \o ClauseList(clauses, i + 1)

BENCHMARK_INSTRUCTIONS ==
  "You are a legal contract analyst specializing in DACH (Germany, Austria, Switzerland) law. Your task is to benchmark a contract against a defined standard (playbook). INSTRUCTIONS: 1. ... 6. ... STANDARD PLAYBOOK: \""

BENCHMARK_FORMAT_TAIL ==
  "\", \"summary\": \"<2-3 sentence overall assessment>\", \"deviations\": [ { \"clauseTitle\": \"<title from standard>\", ..., \"deviationType\": \"<missing|weaker|stronger|different|ok>\", \"severity\": \"<critical|major|minor|info>\", ..., \"suggestedFix\": \"<suggested replacement text or null>\", \"locationHint\": \"<5-10 word quote from document>\" } ] } IMPORTANT: Return ONLY valid JSON. No markdown, no code fences, no explanation outside the JSON."

\* What the OUTPUT FORMAT of the benchmark instruction text permits.
PROMPT_DEVIATION_TYPES == <<"missing", "weaker", "stronger", "different", "ok">>
PROMPT_SEVERITIES == <<"critical", "major", "minor", "info">>
PROMPT_SCORE_RANGE == [lo |-> 0, hi |-> 100]
\* "suggestedFix": "<suggested replacement text or null>"
PROMPT_SUGGESTED_FIX_FORMS == {"string", "null"}

buildBenchmarkPrompt(documentText, playbook) ==
  [systemPrompt |->
     <<BENCHMARK_INSTRUCTIONS, playbook.name, "\"\n">>
     \o ClauseList(playbook.clauses, 1)
     \o <<"\n\nOUTPUT FORMAT (strict JSON): { \"alignmentScore\": <number 0-100>, \"totalClauses\": ",
          ToString(Len(playbook.clauses)), ", \"playbook\": \"", playbook.name,
          BENCHMARK_FORMAT_TAIL>>,
   userPrompt |->
     <<"Analyze the following contract against the \"", playbook.name,
       "\" standard:\n\n---\nDOCUMENT:\n", documentText, "\n---">>]

Absent == "<undefined>"

REVIEW_INSTRUCTIONS ==
  "You are a senior legal risk analyst specializing in contract review for DACH (Germany, Austria, Switzerland) jurisdictions. Your task is to perform a comprehensive risk analysis of a contract document. INSTRUCTIONS: 1. ... 8. ... 9. "

REVIEW_FORMAT_TAIL ==
  " PRIORITIZATION: ... RISK SCORE: ... OUTPUT FORMAT (strict JSON): { \"riskScore\": <number 0-100>, \"totalFindings\": <number>, \"documentType\": \"<what type of contract this is>\", \"summary\": \"<2-3 sentence overall risk assessment>\", \"findings\": [ { \"title\": ..., \"riskCategory\": \"<liability|termination|intellectual_property|confidentiality|payment|data_protection|governing_law|indemnification|non_compete|general>\", \"severity\": \"<critical|major|minor|info>\", ..., \"suggestedAlternative\": \"<recommended clause language or fix>\", \"locationHint\": \"<5-10 word quote from document>\" } ] } IMPORTANT: Return ONLY valid JSON. No markdown, no code fences, no explanation outside the JSON."

\* What the OUTPUT FORMAT of the review instruction text permits.
PROMPT_RISK_CATEGORIES ==
  <<"liability", "termination", "intellectual_property", "confidentiality", "payment",
    "data_protection", "governing_law", "indemnification", "non_compete", "general">>
\* "suggestedAlternative": "<recommended clause language or fix>"
PROMPT_SUGGESTED_ALTERNATIVE_FORMS == {"string"}

buildReviewPrompt(documentText, jurisdiction) ==
  [systemPrompt |->
     <<REVIEW_INSTRUCTIONS>>
     \o (IF jurisdiction # Absent /\ jurisdiction # ""
         THEN <<"Pay special attention to risks under ", jurisdiction, " law.">>
         ELSE <<"Identify the jurisdiction from the document if possible. If not specified, analyze under general DACH (Germany, Austria, Switzerland) law principles.">>)
     \o <<REVIEW_FORMAT_TAIL>>,
   userPrompt |->
     <<"Perform a comprehensive risk analysis of the following contract:\n\n---\nDOCUMENT:\n",
       documentText, "\n---">>]

\* ------------------------------------------------------------------ substring tests
\* String.includes on a Text: the fragments of the model that contain the
\* needle.  A match that would span two fragments is not modelled.
RISK_ANALYSIS_FRAGMENTS ==
  {REVIEW_INSTRUCTIONS,
   "Perform a comprehensive risk analysis of the following contract:\n\n---\nDOCUMENT:\n"}

\* The fragments whose lower-cased text contains "nda" ("standard" does).
NDA_FRAGMENTS ==
  {BENCHMARK_INSTRUCTIONS, "NDA Standard", "\" standard:\n\n---\nDOCUMENT:\n",
   "### Standard Clause ", "nda-standard",
   "This Mutual Non-Disclosure Agreement (NDA) is entered into..."}

IncludesRiskAnalysis(text) == \E i \in 1..Len(text) : text[i] \in RISK_ANALYSIS_FRAGMENTS
LowerIncludesNda(text) == \E i \in 1..Len(text) : text[i] \in NDA_FRAGMENTS

\* ------------------------------------------------------------------ stand-in payloads
Deviation(title, docEx, stdEx, type, sev, expl, fix, loc) ==
  ObjV(<<M("clauseTitle", StrV(title)), M("documentExcerpt", StrV(docEx)),
         M("standardExcerpt", StrV(stdEx)), M("deviationType", type),
         M("severity", sev), M("explanation", StrV(expl))>>
       \o (IF fix.t = "undefined" THEN <<>> ELSE <<M("suggestedFix", fix)>>)
       \o <<M("locationHint", StrV(loc))>>)

BenchmarkPayload(score, total, playbookName, deviations) ==
  ObjV(<<M("alignmentScore", score), M("totalClauses", NumV(total)),
         M("playbook", StrV(playbookName)), M("summary", StrV("The document covers...")),
         M("deviations", ArrV(deviations))>>)

getMockBenchmarkResponse(prompt) ==
  LET isNDA == LowerIncludesNda(prompt.userPrompt) \/ LowerIncludesNda(prompt.systemPrompt)
  IN JSONStringify(
       BenchmarkPayload(NumV(62), 8,
         IF isNDA THEN "NDA Standard" ELSE "Service Agreement (MSA)",
         <<Deviation("Definition of Confidential Information", "Confidential Information shall mean...",
                     "Confidential Information means...", StrV("weaker"), StrV("critical"),
                     "The document uses a narrow definition...", StrV("Replace with: ..."),
                     "Confidential Information shall mean any proprietary"),
           Deviation("Obligations of Receiving Party", "The receiving party agrees...",
                     "The Receiving Party shall: ...", StrV("weaker"), StrV("major"),
                     "The document's obligation clause is vague...", StrV("Add specific sub-obligations: ..."),
                     "agrees to keep all shared information confidential"),
           Deviation("Term and Duration", "This agreement is valid for one (1) year...",
                     "This Agreement shall remain in effect...", StrV("weaker"), StrV("major"),
                     "The term is only 1 year...", StrV("Replace with: ..."),
                     "valid for one (1) year from the date"),
           Deviation("Permitted Disclosures", "N/A", "The Receiving Party may disclose...",
                     StrV("missing"), StrV("major"), "No permitted disclosure clause found...",
                     StrV("Add: ..."), "Not found in document"),
           Deviation("Return or Destruction", "N/A", "Upon termination or upon request...",
                     StrV("missing"), StrV("minor"), "No return/destruction clause...",
                     StrV("Add: ..."), "Not found in document"),
           Deviation("Remedies", "N/A", "The Parties acknowledge that breach...",
                     StrV("missing"), StrV("major"), "No remedies clause...",
                     StrV("Add: ..."), "Not found in document"),
           Deviation("Governing Law", "This agreement shall be governed by the laws of Germany...",
                     "This Agreement shall be governed by...", StrV("different"), StrV("minor"),
                     "The document specifies German law...", UndefinedV,
                     "governed by the laws of Germany"),
           Deviation("Non-Compete / Non-Solicitation", "N/A", "During the term and for twelve (12) months...",
                     StrV("missing"), StrV("major"), "No non-solicitation clause...",
                     StrV("Add: ..."), "Not found in document")>>))

Finding(title, category, sev, docEx, expl, alt, loc) ==
  ObjV(<<M("title", StrV(title)), M("riskCategory", category), M("severity", sev),
         M("documentExcerpt", StrV(docEx)), M("explanation", StrV(expl))>>
       \o (IF alt.t = "undefined" THEN <<>> ELSE <<M("suggestedAlternative", alt)>>)
       \o <<M("locationHint", StrV(loc))>>)

ReviewPayload(score, total, findings) ==
  ObjV(<<M("riskScore", score), M("totalFindings", NumV(total)),
         M("documentType", StrV("Mutual Non-Disclosure Agreement")),
         M("summary", StrV("This NDA presents significant risks...")),
         M("findings", ArrV(findings))>>)

getMockReviewResponse ==
  JSONStringify(
    ReviewPayload(NumV(35), 6,
      <<Finding("Vague Confidentiality Obligations", StrV("confidentiality"), StrV("critical"),
                "The receiving party agrees...", "The obligation clause is dangerously vague...",
                StrV("The Receiving Party shall: ..."), "agrees to keep all shared information confidential"),
        Finding("Narrow Definition of Confidential Information", StrV("confidentiality"), StrV("major"),
                "Confidential Information shall mean...", "The term 'proprietary data' is too narrow...",
                StrV("\"Confidential Information\" means..."),
                "Confidential Information shall mean any proprietary"),
        Finding("No Limitation of Liability", StrV("liability"), StrV("major"), "N/A",
                "The agreement contains no limitation of liability clause...",
                StrV("Neither Party's aggregate liability..."), "Not found in document"),
        Finding("Short Term Without Survival Clause", StrV("termination"), StrV("major"),
                "This agreement is valid for one (1) year...", "A 1-year term is short for an NDA...",
                StrV("This Agreement shall remain in effect..."), "valid for one (1) year from the date"),
        Finding("Missing Permitted Disclosure Exceptions", StrV("confidentiality"), StrV("major"), "N/A",
                "The agreement has no exceptions for permitted disclosures...",
                StrV("The Receiving Party may disclose..."), "Not found in document"),
        Finding("Foreign Jurisdiction for Swiss Party", StrV("governing_law"), StrV("minor"),
                "This agreement shall be governed by the laws of Germany...",
                "The agreement involves a Swiss party...", UndefinedV,
                "governed by the laws of Germany")>>))

\* ------------------------------------------------------------------ the generation service
\* The classes of error client.chat.completions.create rejects with.
ERROR_CLASSES ==
  {"RateLimitError", "APIConnectionTimeoutError", "InternalServerError",
   "AuthenticationError", "BadRequestError", "APIConnectionError"}

\* err.message of an error of the client: its class name stands for it.
ErrorMessage(class) == <<class>>

SampleDeviation(type, sev, fix) ==
  Deviation("Governing Law", "This agreement shall be governed by the laws of Germany.",
            "This Agreement shall be governed by the laws of Switzerland.", type, sev,
            "Different jurisdiction.", fix, "governed by the laws of Germany")

GoodBenchmark ==
  JSONStringify(BenchmarkPayload(NumV(85), 1, "NDA Standard",
                                 <<SampleDeviation(StrV("different"), StrV("minor"), UndefinedV)>>))

\* A score of 150 and a severity outside the closed set.
BadBenchmark ==
  JSONStringify(BenchmarkPayload(NumV(150), 1, "NDA Standard",
                                 <<SampleDeviation(StrV("weaker"), StrV("high"), StrV("Replace with: ..."))>>))

GoodReview ==
  JSONStringify(ReviewPayload(NumV(40), 1,
                              <<Finding("No Limitation of Liability", StrV("liability"), StrV("major"),
                                        "N/A", "No cap on damages.", UndefinedV, "Not found in document")>>))

\* Prose in front of the payload, and a payload cut before its last brace.
ProseWrapped == <<W("Here"), W("is"), W("the"), W("JSON:")>> \o GoodBenchmark
Truncated == SubSeq(GoodReview, 1, Len(GoodReview) - 1)

SERVICE_CONTENTS == {GoodBenchmark, BadBenchmark, GoodReview, ProseWrapped, Truncated}

\* What one call of client.chat.completions.create can end with: a message
\* content, an empty content, or a rejection.
Content(raw) == [kind |-> "content", raw |-> raw, error |-> ""]
EmptyContent == [kind |-> "empty", raw |-> <<>>, error |-> ""]
Rejection(class) == [kind |-> "error", raw |-> <<>>, error |-> class]

SERVICE_OUTCOMES ==
  {Content(raw) : raw \in SERVICE_CONTENTS} \cup {EmptyContent}
  \cup {Rejection(class) : class \in ERROR_CLASSES}

\* ------------------------------------------------------------------ callLLM
\* Mutant of ContentMissing: an empty content is returned like any other.
ContentMissing_Never(outcome) == FALSE

\* `!content`, of response.choices[0]?.message?.content
ContentMissing(outcome) == outcome.raw = <<>>

\* Mutant of IsRetryable: every connection error counts, timeout or not.
IsRetryable_ConnectionErrors(class) ==
  class \in {"RateLimitError", "APIConnectionTimeoutError", "InternalServerError",
             "APIConnectionError"}

\* isRateLimit || isTimeout || err instanceof InternalServerError
IsRetryable(class) ==
  class \in {"RateLimitError", "APIConnectionTimeoutError", "InternalServerError"}

\* Mutants of ShouldRetry: never retry; retry whatever the class; retry the
\* plain Error of an empty content too; retry on the last attempt as well.
ShouldRetry_Never(class, attempt) == FALSE
ShouldRetry_EveryAttempt(class, attempt) == IsRetryable(class)
ShouldRetry_AnyClass(class, attempt) == attempt < MAX_RETRIES
ShouldRetry_PlainErrors(class, attempt) ==
  (IsRetryable(class) \/ class = "Error") /\ attempt < MAX_RETRIES

\* isRetryable && attempt < MAX_RETRIES
ShouldRetry(class, attempt) == IsRetryable(class) /\ attempt < MAX_RETRIES

\* Mutant of NextAttempt: the loop starts over.
NextAttempt_Restart(attempt) == 1

\* attempt++ of the loop of callLLM
NextAttempt(attempt) == attempt + 1

\* Mutant of BackoffDelay: the exponent is off by one.
BackoffDelay_OffByOne(attempt) == BASE_DELAY_MS * Pow2(attempt)

\* BASE_DELAY_MS * Math.pow(2, attempt - 1)
BackoffDelay(attempt) == BASE_DELAY_MS * Pow2(attempt - 1)

\* Mutant of LLMFailureMessage: the budget is embedded, not the attempt.
LLMFailureMessage_Budget(attempt, cause) ==
  <<"LLM API call failed after ", ToString(MAX_RETRIES), " attempt(s): ">> \o cause

\* `LLM API call failed after ${attempt} attempt(s): ${err.message}`
LLMFailureMessage(attempt, cause) ==
  <<"LLM API call failed after ", ToString(attempt), " attempt(s): ">> \o cause

\* Mutant of MockResponse: the benchmark payload whatever the prompt.
MockResponse_AlwaysBenchmark(p) == getMockBenchmarkResponse(p)

\* The stand-in branch of callLLM.
MockResponse(p) ==
  IF IncludesRiskAnalysis(p.systemPrompt) THEN getMockReviewResponse
  ELSE getMockBenchmarkResponse(p)

\* ------------------------------------------------------------------ validators
\* Mutant of EXCERPT_LIMIT: the excerpt runs one unit longer.
EXCERPT_LIMIT_OneMore == 200 + 1

EXCERPT_LIMIT == 200

TokenText(tok) == IF tok.t = "num" THEN ToString(tok.n)
                  ELSE IF tok.t = "null" THEN "null" ELSE tok.s

\* currentRaw.substring(0, 200)
Excerpt(raw) ==
  [i \in 1..(IF Len(raw) < EXCERPT_LIMIT THEN Len(raw) ELSE EXCERPT_LIMIT) |-> TokenText(raw[i])]

SYNTAX_FEEDBACK ==
  <<"Your previous response was not valid JSON. Return ONLY valid JSON matching the schema. Error: invalid JSON syntax.">>

SchemaOf(task) == IF task = "review" THEN ReviewResultSchema ELSE BenchmarkResultSchema

\* Mutant of ValidateOnce: whatever parses is returned, checked or not.
ValidateOnce_BestEffort(task, raw) ==
  LET parsed == JSONParse(raw) IN
    IF ~parsed.ok
    THEN [cls |-> "syntax", feedback |-> SYNTAX_FEEDBACK, errors |-> <<>>,
          message |-> <<"LLM returned invalid JSON: ">> \o Excerpt(raw) \o <<"...">>,
          data |-> NullV]
    ELSE [cls |-> "valid", feedback |-> <<>>, errors |-> <<>>, message |-> <<>>,
          data |-> parsed.v]

\* Mutant of ValidateOnce: the SyntaxError of JSON.parse is not caught.
ValidateOnce_UncaughtParse(task, raw) ==
  LET parsed == JSONParse(raw) IN
    IF ~parsed.ok
    THEN [cls |-> "syntax", feedback |-> <<"SyntaxError: Unexpected token">>, errors |-> <<>>,
          message |-> <<"SyntaxError: Unexpected token">>, data |-> NullV]
    ELSE LET result == SafeParse(SchemaOf(task), parsed.v)
             errors == FormatIssues(result.issues, 1)
         IN IF ~result.success
            THEN [cls |-> "schema",
                  feedback |-> <<"Your previous response had validation errors: ">> \o errors
                               \o <<". Fix these issues and return valid JSON matching the required schema.">>,
                  errors |-> errors,
                  message |-> <<"LLM output failed validation: ">> \o errors,
                  data |-> NullV]
            ELSE [cls |-> "valid", feedback |-> <<>>, errors |-> <<>>, message |-> <<>>,
                  data |-> result.data]

\* One pass of the validator's loop body over currentRaw: its class, the
\* feedback it hands to retryFn, the message of the error it throws, and
\* result.data.
ValidateOnce(task, raw) ==
  LET parsed == JSONParse(raw) IN
    IF ~parsed.ok
    THEN [cls |-> "syntax", feedback |-> SYNTAX_FEEDBACK, errors |-> <<>>,
          message |-> <<"LLM returned invalid JSON: ">> \o Excerpt(raw) \o <<"...">>,
          data |-> NullV]
    ELSE LET result == SafeParse(SchemaOf(task), parsed.v)
             errors == FormatIssues(result.issues, 1)
         IN IF ~result.success
            THEN [cls |-> "schema",
                  feedback |-> <<"Your previous response had validation errors: ">> \o errors
                               \o <<". Fix these issues and return valid JSON matching the required schema.">>,
                  errors |-> errors,
                  message |-> <<"LLM output failed validation: ">> \o errors,
                  data |-> NullV]
            ELSE [cls |-> "valid", feedback |-> <<>>, errors |-> <<>>, message |-> <<>>,
                  data |-> result.data]

\* Mutant of NextRaw: the corrected output is dropped.
NextRaw_Stale(current, returned) == current

\* currentRaw = await retryFn(...)
NextRaw(current, returned) == returned

\* Mutants of MayReprompt: every failed pass re-prompts; the first failed
\* pass re-prompts, retryFn given or not.
MayReprompt_Always(vattempt, hasRetryFn) == hasRetryFn
MayReprompt_WithoutRetryFn(vattempt, hasRetryFn) == vattempt = 1

\* attempt === 1 && retryFn
MayReprompt(vattempt, hasRetryFn) == vattempt = 1 /\ hasRetryFn

\* Mutants of CorrectedPrompt: the correction replaces the data text; the
\* correction is appended to the instruction text.
CorrectedPrompt_FeedbackOnly(prompt, errorFeedback) ==
  [systemPrompt |-> prompt.systemPrompt,
   userPrompt |-> <<"IMPORTANT CORRECTION: ">> \o errorFeedback]
CorrectedPrompt_SystemNote(prompt, errorFeedback) ==
  [systemPrompt |-> prompt.systemPrompt \o <<"\n\nIMPORTANT CORRECTION: ">> \o errorFeedback,
   userPrompt |-> prompt.userPrompt]

\* The pair retryFn passes to callLLM.
CorrectedPrompt(prompt, errorFeedback) ==
  [systemPrompt |-> prompt.systemPrompt,
   userPrompt |-> prompt.userPrompt \o <<"\n\nIMPORTANT CORRECTION: ">> \o errorFeedback]

\* ------------------------------------------------------------------ requests
Doc == "This Mutual Non-Disclosure Agreement (NDA) is entered into..."

BenchmarkBodies ==
  [task : {"benchmark"}, documentText : {Absent, "", Doc},
   playbook : {Absent, "", "nda-standard", "service-agreement", "employment-contract",
               "constructor"},
   jurisdiction : {Absent}]

ReviewBodies ==
  [task : {"review"}, documentText : {"", Doc}, playbook : {Absent},
   jurisdiction : {Absent, "Switzerland"}]

\* BenchmarkRequestSchema / ReviewRequestSchema .safeParse(req.body).success
RequestValid(body) ==
  /\ body.documentText # Absent /\ body.documentText # ""
  /\ body.task = "benchmark" => (body.playbook # Absent /\ body.playbook # "")

NoBody == [task |-> "", documentText |-> "", playbook |-> "", jurisdiction |-> ""]
NoPrompt == [systemPrompt |-> <<>>, userPrompt |-> <<>>]
NoResponse == [status |-> 0, error |-> <<>>, body |-> NullV, message |-> <<>>, sent |-> 0]
LLMIdle == [pc |-> "idle", attempt |-> 0, prompt |-> NoPrompt, raw |-> <<>>, message |-> <<>>]

\* ------------------------------------------------------------------ process.env
\* process.env as the backend reads it, and what it held when the module
\* was loaded.
Env(key, model) ==
  [OPENAI_API_KEY |-> key, OPENAI_MODEL |-> model,
   atStartup |-> [OPENAI_API_KEY |-> key, OPENAI_MODEL |-> model]]

\* !process.env.OPENAI_API_KEY
UseMockOf(e) == e.OPENAI_API_KEY \in {Absent, ""}

\* process.env.OPENAI_MODEL || "gpt-4o-mini"
ModelOf(e) == IF e.OPENAI_MODEL \in {Absent, ""} THEN "gpt-4o-mini" ELSE e.OPENAI_MODEL

\* The environments the process is started in: with or without a credential.
STARTUP_ENVS == {Env(key, Absent) : key \in {Absent, "sk-startup"}}

\* The environments of the configuration runs: with or without a credential,
\* with or without a model override.
CONFIG_ENVS == {Env(key, model) : key \in {Absent, "sk-startup"}, model \in {Absent, "gpt-4o"}}

\* The request has not been abandoned by its caller.
NotAbandoned == [closed |-> FALSE, calls |-> <<>>]

\* ------------------------------------------------------------------ validator inputs
\* The payloads a validator is handed when it is called on its own: scores
\* inside and outside 0..100, lists of deviations or findings whose elements
\* are well-formed, carry a null suggestion, or carry a value outside a
\* closed set.
ListsUpTo(set, n) == UNION {[1..k -> set] : k \in 0..n}

UNIT_SCORES == {NumV(0), NumV(100), NumV(101), NumV(-1), StrV("85")}

UNIT_DEVIATIONS ==
  {SampleDeviation(StrV("ok"), StrV("info"), UndefinedV),
   SampleDeviation(StrV("weaker"), StrV("major"), StrV("Replace with: ...")),
   SampleDeviation(StrV("missing"), StrV("critical"), NullV),
   SampleDeviation(StrV("weaker"), StrV("high"), StrV("Replace with: ...")),
   SampleDeviation(StrV("match"), StrV("minor"), UndefinedV)}

SampleFinding(category, sev, alt) ==
  Finding("No Limitation of Liability", category, sev, "N/A", "No cap on damages.", alt,
          "Not found in document")

UNIT_RISK_SCORES == {NumV(40), NumV(101)}

UNIT_FINDINGS ==
  {SampleFinding(StrV("liability"), StrV("major"), UndefinedV),
   SampleFinding(StrV("general"), StrV("info"), StrV("Add a cap on damages.")),
   SampleFinding(StrV("legal"), StrV("major"), UndefinedV),
   SampleFinding(StrV("payment"), NumV(3), NullV)}

UNIT_PAYLOADS ==
  {BenchmarkPayload(score, 8, "NDA Standard", ds) :
     score \in UNIT_SCORES, ds \in ListsUpTo(UNIT_DEVIATIONS, MaxItems)}
  \cup {ReviewPayload(score, 6, fs) :
          score \in UNIT_RISK_SCORES, fs \in ListsUpTo(UNIT_FINDINGS, MaxItems)}
  \cup {ArrV(<<>>)}

\* A payload behind a preamble that alone is longer than any excerpt.
Rambling ==
  LET line == [i \in 1..60 |-> W("Certainly.")] IN line \o line \o line \o line \o GoodBenchmark

\* Raw outputs that are no JSON text: prose, a cut payload, the empty string,
\* a long preamble.
UNIT_TEXTS == {ProseWrapped, Truncated, <<>>, Rambling}

\* rawResponse, with the payload it was serialized from (undefined for a
\* text that was not).
UNIT_INPUTS ==
  {[payload |-> v, raw |-> JSONStringify(v)] : v \in UNIT_PAYLOADS}
  \cup {[payload |-> UndefinedV, raw |-> text] : text \in UNIT_TEXTS}

\* What a retryFn handed to the validator resolves with.
RETRY_RAWS == {GoodBenchmark, BadBenchmark, GoodReview, Truncated}

\* The error a rejected retryFn passes through the validator.
RetryFnError == <<"retryFn rejected">>

\* A call of validateBenchmarkOutput / validateReviewOutput: its arguments,
\* its loop variables, the feedback texts it has handed to retryFn, the
\* passes of its loop, and the promise it returned.
UnitCall(task, input, hasRetryFn) ==
  [task |-> task, payload |-> input.payload, raw |-> input.raw, hasRetryFn |-> hasRetryFn,
   attempt |-> 1, state |-> "ready", feedbacks |-> <<>>, passes |-> <<>>,
   data |-> NullV, message |-> <<>>]

UnitIdle ==
  [task |-> "", payload |-> UndefinedV, raw |-> <<>>, hasRetryFn |-> FALSE,
   attempt |-> 0, state |-> "idle", feedbacks |-> <<>>, passes |-> <<>>,
   data |-> NullV, message |-> <<>>]

\* ------------------------------------------------------------------ prompt builder inputs
\* Playbooks as a caller of buildBenchmarkPrompt may hand them over: the
\* names of the store, with none, one or several of its clauses.
COMPOSER_PLAYBOOKS ==
  LET clauses == {PLAYBOOKS[id].clauses[k] : id \in DOMAIN PLAYBOOKS, k \in 1..2} IN
    {[id |-> id, name |-> PLAYBOOKS[id].name, clauses |-> cs] :
       id \in DOMAIN PLAYBOOKS, cs \in ListsUpTo(clauses, MaxItems)}

\* ------------------------------------------------------------------ state
VARIABLES
  useMock,      \* USE_MOCK, read when the module is loaded
  served,       \* number of requests received so far
  req,          \* req.body of the request being handled
  pc,           \* where the route handler is: idle, callLLM, validate, retryFn, done
  prompt,       \* the route's prompt
  llm,          \* the callLLM invocation in progress: pc, attempt, prompt, result
  currentRaw,   \* the validator's currentRaw
  vattempt,     \* the validator's attempt
  response,     \* what the route has sent: status, body, message
  calls,        \* history: per callLLM invocation, its prompt, its trace of service
                \* attempts, replies and backoff waits, and how it ended
  validations,  \* history: the outcome of each pass of the validator
  unit,         \* a validator called on its own, outside the routes
  env,          \* process.env
  abandoned,    \* whether the caller has closed the connection of the request,
                \* and the history of the request at that time
  parked,       \* the locals of the other request in flight, when there are two
  composer,     \* a prompt builder called on its own, outside the routes
  client        \* the React state of the web app and of the Word add-in taskpane

vars == <<useMock, served, req, pc, prompt, llm, currentRaw, vattempt, response, calls,
          validations, unit, env, abandoned, parked, composer, client>>

\* What no step of a request touches.
outside == <<unit, env, parked, composer, client>>

\* No second request, no builder called on its own.
NoRequest ==
  [slot |-> 0, req |-> NoBody, pc |-> "idle", prompt |-> NoPrompt, llm |-> LLMIdle,
   currentRaw |-> <<>>, vattempt |-> 0, response |-> NoResponse, calls |-> <<>>,
   validations |-> <<>>]

ComposerIdle ==
  [documentText |-> "", playbook |-> [name |-> "", clauses |-> <<>>], state |-> "idle",
   prompt |-> NoPrompt]

\* The web app (App) and the Word add-in taskpane (BenchmarkTaskpane) as
\* mounted: their useState initial values, no fetch in flight.
ClientIdle ==
  [web |-> [documentText |-> "", uploadedFile |-> FALSE, result |-> "null",
            reviewResult |-> "null", loading |-> FALSE, error |-> "null",
            parsing |-> FALSE, fetch |-> NoBody],
   addin |-> [result |-> "null", loading |-> FALSE, error |-> "null", fetch |-> NoBody]]

\* The process after the modules are loaded in environment e: USE_MOCK is
\* set, no request has arrived.
Loaded(e) ==
  /\ env = e
  /\ useMock = UseMockOf(e)
  /\ served = 0
  /\ req = NoBody
  /\ pc = "idle"
  /\ prompt = NoPrompt
  /\ llm = LLMIdle
  /\ currentRaw = <<>>
  /\ vattempt = 0
  /\ response = NoResponse
  /\ calls = <<>>
  /\ validations = <<>>
  /\ abandoned = NotAbandoned

Init ==
  /\ \E e \in STARTUP_ENVS : Loaded(e)
  /\ unit = UnitIdle
  /\ parked = NoRequest
  /\ composer = ComposerIdle
  /\ client = ClientIdle

\* The events of a callLLM invocation: service attempt n issued, the reply to
\* attempt n (content, empty, or the class of the rejection), a backoff wait.
EvAttempt(n) == [e |-> "attempt", n |-> n, s |-> ""]
EvReply(n, kind) == [e |-> "reply", n |-> n, s |-> kind]
\* Mutant of EvWait: the wait is longer by a jitter, taken from what the
\* process has seen so far.
EvWait_Jittered(ms) == [e |-> "wait", n |-> ms + served, s |-> ""]

EvWait(ms) == [e |-> "wait", n |-> ms, s |-> ""]

\* The record of a callLLM invocation: besides its trace, the credential its
\* client was built with and the model named in each service attempt.
NewCall(p, trace, result, raw) ==
  [prompt |-> p, trace |-> trace, result |-> result, raw |-> raw, message |-> <<>>,
   apiKey |-> Absent, models |-> <<>>]

\* new OpenAI({ apiKey: process.env.OPENAI_API_KEY })
ClientKey(e) == e.OPENAI_API_KEY

\* client.chat.completions.create({ model: process.env.OPENAI_MODEL || ... })
Requested(history, e) ==
  [history EXCEPT ![Len(history)].models = Append(@, ModelOf(e))]

Logged(history, events, result, raw, message) ==
  [history EXCEPT ![Len(history)] =
     [@ EXCEPT !.trace = @ \o events, !.result = result, !.raw = raw, !.message = message]]

\* callLLM(p) up to its first await: the stand-in returns at once, the live
\* client issues service attempt 1.
CallLLM(p, history) ==
  IF useMock
  THEN /\ llm' = [LLMIdle EXCEPT !.pc = "returned", !.prompt = p, !.raw = MockResponse(p)]
       /\ calls' = Append(history, NewCall(p, <<>>, "returned", MockResponse(p)))
  ELSE /\ llm' = [LLMIdle EXCEPT !.pc = "inflight", !.prompt = p, !.attempt = 1]
       /\ calls' = Requested(Append(history,
                                     [NewCall(p, <<EvAttempt(1)>>, "pending", <<>>)
                                        EXCEPT !.apiKey = ClientKey(env)]), env)

\* The number of responses written to res so far: none when the handler is
\* entered.
SentSoFar == IF pc \in {"idle", "done"} THEN 0 ELSE response.sent

\* Mutant of Respond: the response is written twice.
Respond_Twice(status, error, body, message) ==
  /\ response' = [status |-> status, error |-> error, body |-> body, message |-> message,
                  sent |-> SentSoFar + 2]
  /\ pc' = "done"

\* res.json(result), or res.status(status).json({error, message}).
Respond(status, error, body, message) ==
  /\ response' = [status |-> status, error |-> error, body |-> body, message |-> message,
                  sent |-> SentSoFar + 1]
  /\ pc' = "done"

\* router.post("/benchmark") and router.post("/review") up to `await callLLM(prompt)`.
HandleRequest(body) ==
  /\ pc \in {"idle", "done"}
  /\ served < MaxRequests
  /\ served' = served + 1
  /\ req' = body
  /\ currentRaw' = <<>>
  /\ vattempt' = 0
  /\ validations' = <<>>
  /\ abandoned' = NotAbandoned
  /\ UNCHANGED <<useMock, outside>>
  /\ IF ~RequestValid(body)
     THEN /\ Respond(400, <<"Invalid request">>, NullV, <<>>)
          /\ prompt' = NoPrompt /\ llm' = LLMIdle /\ calls' = <<>>
     ELSE IF body.task = "benchmark" /\ ~HasPlaybook(body.playbook)
     THEN /\ Respond(404, <<"Playbook '", body.playbook, "' not found">>, NullV, <<>>)
          /\ prompt' = NoPrompt /\ llm' = LLMIdle /\ calls' = <<>>
     ELSE IF body.task = "benchmark" /\ body.playbook \notin DOMAIN PLAYBOOKS
     THEN \* what was found is no playbook: `playbook.clauses.length` throws
          /\ Respond(500, <<"Benchmark failed">>, NullV,
                     <<"Cannot read properties of undefined (reading 'length')">>)
          /\ prompt' = NoPrompt /\ llm' = LLMIdle /\ calls' = <<>>
     ELSE LET p == IF body.task = "benchmark"
                   THEN buildBenchmarkPrompt(body.documentText, PLAYBOOKS[body.playbook])
                   ELSE buildReviewPrompt(body.documentText, body.jurisdiction)
          IN /\ prompt' = p
             /\ CallLLM(p, <<>>)
             /\ pc' = "callLLM"
             /\ response' = NoResponse

\* The service call of the current attempt settles, and callLLM runs on to
\* its return, its throw, or the start of its backoff wait.
ServiceReply(outcome) ==
  /\ llm.pc = "inflight"
  /\ IF outcome.kind # "error" /\ ~ContentMissing(outcome)
     THEN /\ llm' = [llm EXCEPT !.pc = "returned", !.raw = outcome.raw]
          /\ calls' = Logged(calls, <<EvReply(llm.attempt, "content")>>, "returned",
                             outcome.raw, <<>>)
     ELSE LET empty == outcome.kind # "error"
              class == IF empty THEN "Error" ELSE outcome.error
              cause == IF empty THEN <<"LLM returned empty response">>
                       ELSE ErrorMessage(outcome.error)
              reply == EvReply(llm.attempt, IF empty THEN "empty" ELSE class)
          IN IF ShouldRetry(class, llm.attempt)
             THEN /\ llm' = [llm EXCEPT !.pc = "backoff"]
                  /\ calls' = Logged(calls, <<reply, EvWait(BackoffDelay(llm.attempt))>>,
                                     "pending", <<>>, <<>>)
             ELSE LET message == LLMFailureMessage(llm.attempt, cause) IN
                  /\ llm' = [llm EXCEPT !.pc = "threw", !.message = message]
                  /\ calls' = Logged(calls, <<reply>>, "threw", <<>>, message)
  /\ UNCHANGED <<useMock, served, req, pc, prompt, currentRaw, vattempt, response, validations,
                 abandoned, outside>>

\* The backoff timer fires: `continue`, attempt++, and the next service attempt.
BackoffElapsed ==
  /\ llm.pc = "backoff"
  /\ IF NextAttempt(llm.attempt) <= MAX_RETRIES
     THEN /\ llm' = [llm EXCEPT !.pc = "inflight", !.attempt = NextAttempt(@)]
          /\ calls' = Requested(Logged(calls, <<EvAttempt(NextAttempt(llm.attempt))>>,
                                       "pending", <<>>, <<>>), env)
     ELSE LET message == <<"LLM call exhausted all retries">> IN
          /\ llm' = [llm EXCEPT !.pc = "threw", !.attempt = NextAttempt(@), !.message = message]
          /\ calls' = Logged(calls, <<>>, "threw", <<>>, message)
  /\ UNCHANGED <<useMock, served, req, pc, prompt, currentRaw, vattempt, response, validations,
                 abandoned, outside>>

RouteError == IF req.task = "review" THEN "Review failed" ELSE "Benchmark failed"

\* Mutant of ResumeRoute: a failed generation is validated as an empty output.
ResumeRoute_ValidatesAnyway ==
  /\ pc = "callLLM"
  /\ llm.pc \in {"returned", "threw"}
  /\ currentRaw' = llm.raw
  /\ vattempt' = 1
  /\ pc' = "validate"
  /\ llm' = [llm EXCEPT !.pc = "idle"]
  /\ UNCHANGED <<useMock, served, req, prompt, calls, validations, abandoned, outside,
                 response>>

\* `await callLLM(prompt)` of the route settles: the validator is entered
\* with the raw response, or the route's catch answers 500.
ResumeRoute ==
  /\ pc = "callLLM"
  /\ llm.pc \in {"returned", "threw"}
  /\ IF llm.pc = "returned"
     THEN /\ currentRaw' = llm.raw
          /\ vattempt' = 1
          /\ pc' = "validate"
          /\ UNCHANGED response
     ELSE /\ Respond(500, <<RouteError>>, NullV, llm.message)
          /\ UNCHANGED <<currentRaw, vattempt>>
  /\ llm' = [llm EXCEPT !.pc = "idle"]
  /\ UNCHANGED <<useMock, served, req, prompt, calls, validations, abandoned, outside>>

\* One pass of the validator's loop: return the data (the route answers
\* 200), call retryFn with the feedback, or throw (the route answers 500).
Validate ==
  /\ pc = "validate"
  /\ LET r == ValidateOnce(req.task, currentRaw) IN
       /\ validations' = Append(validations, [cls |-> r.cls, attempt |-> vattempt,
                                              raw |-> currentRaw])
       /\ IF r.cls = "valid"
          THEN /\ Respond(200, <<>>, r.data, <<>>)
               /\ UNCHANGED <<llm, calls>>
          ELSE IF MayReprompt(vattempt, TRUE)
          THEN /\ CallLLM(CorrectedPrompt(prompt, r.feedback), calls)
               /\ pc' = "retryFn"
               /\ UNCHANGED response
          ELSE /\ Respond(500, <<RouteError>>, NullV, r.message)
               /\ UNCHANGED <<llm, calls>>
  /\ UNCHANGED <<useMock, served, req, prompt, currentRaw, vattempt, abandoned, outside>>

\* `await retryFn(...)` of the validator settles: `continue` with the new
\* raw output, or the error passes through the validator to the route's catch.
ResumeValidator ==
  /\ pc = "retryFn"
  /\ llm.pc \in {"returned", "threw"}
  /\ IF llm.pc = "returned"
     THEN IF vattempt + 1 <= VALIDATION_ATTEMPTS
          THEN /\ currentRaw' = NextRaw(currentRaw, llm.raw)
               /\ vattempt' = vattempt + 1
               /\ pc' = "validate"
               /\ UNCHANGED response
          ELSE /\ Respond(500, <<RouteError>>, NullV, <<"Validation exhausted all retries">>)
               /\ currentRaw' = NextRaw(currentRaw, llm.raw)
               /\ vattempt' = vattempt + 1
     ELSE /\ Respond(500, <<RouteError>>, NullV, llm.message)
          /\ UNCHANGED <<currentRaw, vattempt>>
  /\ llm' = [llm EXCEPT !.pc = "idle"]
  /\ UNCHANGED <<useMock, served, req, prompt, calls, validations, abandoned, outside>>

Next ==
  \/ \E body \in BenchmarkBodies \cup ReviewBodies : HandleRequest(body)
  \/ \E outcome \in SERVICE_OUTCOMES : ServiceReply(outcome)
  \/ BackoffElapsed
  \/ ResumeRoute
  \/ Validate
  \/ ResumeValidator

Spec == Init /\ [][Next]_vars

\* The same steps, with what the host guarantees: a service attempt
\* eventually settles one way or another, a timer set by setTimeout
\* eventually fires, and a promise that has settled eventually resumes the
\* function awaiting it; the validator's loop runs once entered (its pass
\* is the one step that leaves "validate").  Nothing obliges a caller to
\* send a request.
LiveSpec ==
  /\ Spec
  /\ WF_vars(\E outcome \in SERVICE_OUTCOMES : ServiceReply(outcome))
  /\ WF_vars(BackoffElapsed)
  /\ WF_vars(ResumeRoute)
  /\ WF_pc(pc = "validate" /\ pc' \in {"retryFn", "done"})
  /\ WF_vars(ResumeValidator)

\* ------------------------------------------------------------------ the validators on their own
\* validateBenchmarkOutput(raw, retryFn?) / validateReviewOutput(raw, retryFn?)
\* called directly: any raw output, with or without a retryFn.
InitValidator ==
  /\ \E e \in STARTUP_ENVS : Loaded(e)
  /\ parked = NoRequest
  /\ composer = ComposerIdle
  /\ client = ClientIdle
  /\ unit \in {UnitCall(task, input, hasRetryFn) :
                 task \in {"benchmark", "review"}, input \in UNIT_INPUTS,
                 hasRetryFn \in BOOLEAN}

\* One pass of the loop: return the data, hand the feedback to retryFn, or
\* throw.
UnitValidate ==
  /\ unit.state = "ready"
  /\ LET r == ValidateOnce(unit.task, unit.raw)
         pass == [cls |-> r.cls, attempt |-> unit.attempt, raw |-> unit.raw]
     IN unit' =
          IF r.cls = "valid"
          THEN [unit EXCEPT !.state = "resolved", !.data = r.data,
                            !.passes = Append(@, pass)]
          ELSE IF MayReprompt(unit.attempt, unit.hasRetryFn)
          THEN [unit EXCEPT !.state = "retrying", !.feedbacks = Append(@, r.feedback),
                            !.passes = Append(@, pass)]
          ELSE [unit EXCEPT !.state = "rejected", !.message = r.message,
                            !.passes = Append(@, pass)]
  /\ UNCHANGED <<useMock, served, req, pc, prompt, llm, currentRaw, vattempt, response,
                 calls, validations, env, abandoned, parked, composer, client>>

\* `await retryFn(...)` resolves: `continue` with the raw output it gave.
UnitRetryReturns(raw) ==
  /\ unit.state = "retrying"
  /\ unit' = IF unit.attempt + 1 <= VALIDATION_ATTEMPTS
             THEN [unit EXCEPT !.state = "ready", !.raw = NextRaw(@, raw),
                               !.attempt = @ + 1]
             ELSE [unit EXCEPT !.state = "rejected", !.raw = NextRaw(@, raw),
                               !.attempt = @ + 1,
                               !.message = <<"Validation exhausted all retries">>]
  /\ UNCHANGED <<useMock, served, req, pc, prompt, llm, currentRaw, vattempt, response,
                 calls, validations, env, abandoned, parked, composer, client>>

\* `await retryFn(...)` rejects: the error passes through the validator.
UnitRetryThrows ==
  /\ unit.state = "retrying"
  /\ unit' = [unit EXCEPT !.state = "rejected", !.message = RetryFnError]
  /\ UNCHANGED <<useMock, served, req, pc, prompt, llm, currentRaw, vattempt, response,
                 calls, validations, env, abandoned, parked, composer, client>>

NextValidator ==
  \/ UnitValidate
  \/ \E raw \in RETRY_RAWS : UnitRetryReturns(raw)
  \/ UnitRetryThrows

ValidatorSpec == InitValidator /\ [][NextValidator]_vars

\* ------------------------------------------------------------------ a changing environment
\* The requests and service outcomes of the runs that follow one request
\* closely: a benchmark of a document; a valid payload, a cut one, a rate
\* limit, a rejected credential.
FEW_BODIES ==
  {[task |-> "benchmark", documentText |-> Doc, playbook |-> "nda-standard",
    jurisdiction |-> Absent]}

FEW_OUTCOMES ==
  {Content(GoodBenchmark), Content(Truncated), Rejection("RateLimitError"),
   Rejection("AuthenticationError")}

InitConfig ==
  /\ \E e \in CONFIG_ENVS : Loaded(e)
  /\ unit = UnitIdle
  /\ parked = NoRequest
  /\ composer = ComposerIdle
  /\ client = ClientIdle

\* process.env is assigned while the server runs.  A process started with a
\* credential keeps one.
EnvChanges(key, model) ==
  /\ useMock \/ key # Absent
  /\ env' = [env EXCEPT !.OPENAI_API_KEY = key, !.OPENAI_MODEL = model]
  /\ env' # env
  /\ UNCHANGED <<useMock, served, req, pc, prompt, llm, currentRaw, vattempt, response,
                 calls, validations, unit, abandoned, parked, composer, client>>

NextConfig ==
  \/ \E body \in FEW_BODIES : HandleRequest(body)
  \/ \E outcome \in FEW_OUTCOMES : ServiceReply(outcome)
  \/ BackoffElapsed
  \/ ResumeRoute
  \/ Validate
  \/ ResumeValidator
  \/ \E key \in {Absent, "sk-startup", "sk-rotated"}, model \in {Absent, "gpt-4o"} :
       EnvChanges(key, model)

ConfigSpec == InitConfig /\ [][NextConfig]_vars

\* ------------------------------------------------------------------ a caller that gives up
\* The caller closes the connection of the request in flight.  No handler
\* listens for it: nothing but the connection changes.
ClientAbandons ==
  /\ pc \notin {"idle", "done"}
  /\ ~abandoned.closed
  /\ abandoned' = [closed |-> TRUE, calls |-> calls]
  /\ UNCHANGED <<useMock, served, req, pc, prompt, llm, currentRaw, vattempt, response,
                 calls, validations, outside>>

NextAbort ==
  \/ \E body \in FEW_BODIES : HandleRequest(body)
  \/ \E outcome \in FEW_OUTCOMES : ServiceReply(outcome)
  \/ BackoffElapsed
  \/ ResumeRoute
  \/ Validate
  \/ ResumeValidator
  \/ ClientAbandons

AbortSpec == Init /\ [][NextAbort]_vars

\* ------------------------------------------------------------------ two requests in flight
\* Two requests are handled by one process.  The variables of the request
\* steps are the locals of the handler that is running; the locals of the
\* other handler, suspended, are parked.  Control passes from one to the
\* other between any two steps, which is at least wherever a handler awaits.
Context ==
  [slot |-> 3 - parked.slot, req |-> req, pc |-> pc, prompt |-> prompt, llm |-> llm,
   currentRaw |-> currentRaw, vattempt |-> vattempt, response |-> response,
   calls |-> calls, validations |-> validations]

\* Mutant of InvocationOf: the client and the attempt counter belong to the
\* module, not to the invocation.
InvocationOf_ModuleLevel(handler) == llm

\* `const client`, `let attempt`: the invocation of callLLM a handler awaits
\* is made of locals of that invocation.
InvocationOf(handler) == handler.llm

InitConcurrent ==
  /\ \E e \in STARTUP_ENVS : Loaded(e)
  /\ unit = UnitIdle
  /\ parked = [NoRequest EXCEPT !.slot = 2]
  /\ composer = ComposerIdle
  /\ client = ClientIdle

\* The running handler is suspended, or has finished, and the event loop
\* runs the other one.
Yield ==
  /\ parked.slot # 0
  /\ parked' = Context
  /\ req' = parked.req
  /\ pc' = parked.pc
  /\ prompt' = parked.prompt
  /\ llm' = InvocationOf(parked)
  /\ currentRaw' = parked.currentRaw
  /\ vattempt' = parked.vattempt
  /\ response' = parked.response
  /\ calls' = parked.calls
  /\ validations' = parked.validations
  /\ UNCHANGED <<useMock, served, unit, env, abandoned, composer, client>>

NextConcurrent ==
  \/ \E body \in FEW_BODIES \cup {[task |-> "review", documentText |-> Doc,
                                   playbook |-> Absent, jurisdiction |-> Absent]} :
       pc = "idle" /\ HandleRequest(body)
  \/ \E outcome \in {Content(GoodBenchmark), Rejection("RateLimitError")} : ServiceReply(outcome)
  \/ BackoffElapsed
  \/ ResumeRoute
  \/ Validate
  \/ ResumeValidator
  \/ Yield

ConcurrentSpec == InitConcurrent /\ [][NextConcurrent]_vars

\* ------------------------------------------------------------------ the prompt builder on its own
\* buildBenchmarkPrompt(documentText, playbook) called directly, with any
\* playbook.
InitComposer ==
  /\ \E e \in STARTUP_ENVS : Loaded(e)
  /\ unit = UnitIdle
  /\ parked = NoRequest
  /\ composer \in {[documentText |-> doc, playbook |-> pb, state |-> "called",
                     prompt |-> NoPrompt] :
                      doc \in {"", Doc}, pb \in COMPOSER_PLAYBOOKS}
  /\ client = ClientIdle

\* The call returns its PromptPair.
ComposeBenchmark ==
  /\ composer.state = "called"
  /\ composer' = [composer EXCEPT
                    !.state = "returned",
                    !.prompt = buildBenchmarkPrompt(composer.documentText, composer.playbook)]
  /\ UNCHANGED <<useMock, served, req, pc, prompt, llm, currentRaw, vattempt, response,
                 calls, validations, unit, env, abandoned, parked, client>>

PromptSpec == InitComposer /\ [][ComposeBenchmark]_vars

\* ------------------------------------------------------------------ the clients
\* The state of the backend, which no step of a client touches: a client
\* sees the backend through the status and body of the answer to its fetch.
server == <<useMock, served, req, pc, prompt, llm, currentRaw, vattempt, response, calls,
            validations, unit, env, abandoned, parked, composer>>

\* body: JSON.stringify({ documentText, playbook: playbookId }) of
\* handleBenchmark, JSON.stringify({ documentText }) of handleReview.
WebAppBody(task, documentText, playbookId) ==
  [task |-> task, documentText |-> documentText,
   playbook |-> IF task = "benchmark" THEN playbookId ELSE Absent,
   jurisdiction |-> Absent]

\* body: JSON.stringify({ documentText, playbookId: selectedPlaybook }) of the
\* taskpane: the body has no key "playbook".
WordAddinBody(documentText, selectedPlaybook) ==
  [task |-> "benchmark", documentText |-> documentText, playbookId |-> selectedPlaybook,
   playbook |-> Absent, jurisdiction |-> Absent]

\* The statuses the routes answer a posted body with: 400 when safeParse
\* fails, 404 when getPlaybook finds nothing, else the result or a failure.
Answers(body) ==
  IF ~RequestValid(body) THEN {400}
  ELSE IF body.task = "benchmark" /\ ~HasPlaybook(body.playbook) THEN {404}
  ELSE {200, 500}

\* error of the answer's body, which both clients show.
AnswerError(status, task) ==
  IF status = 400 THEN "Invalid request"
  ELSE IF status = 404 THEN "Playbook not found"
  ELSE IF task = "benchmark" THEN "Benchmark failed" ELSE "Review failed"

\* handleFile up to await extractText(file); the upload zone is rendered
\* while there is no document.
handleFile ==
  /\ client.web.documentText = ""
  /\ ~client.web.parsing
  /\ client' = [client EXCEPT !.web.parsing = TRUE, !.web.error = "null",
                              !.web.result = "null"]
  /\ UNCHANGED server

\* handleFile after await extractText(file): the text, or the catch.
FileRead(outcome) ==
  /\ client.web.parsing
  /\ client' = [client EXCEPT
       !.web.documentText = IF outcome = "text" THEN Doc ELSE @,
       !.web.uploadedFile = IF outcome = "text" THEN TRUE ELSE @,
       !.web.error = IF outcome = "text" THEN @ ELSE "Failed to read file",
       !.web.parsing = FALSE]
  /\ UNCHANGED server

\* "Load Document" of the paste area, with a pasteText that is not blank.
LoadPasted ==
  /\ client.web.documentText = ""
  /\ client' = [client EXCEPT !.web.documentText = Doc, !.web.uploadedFile = TRUE]
  /\ UNCHANGED server

\* onChange of the document textarea, rendered while there is a document.
EditDocument(text) ==
  /\ client.web.documentText # ""
  /\ client' = [client EXCEPT !.web.documentText = text]
  /\ UNCHANGED server

\* handleRemoveFile; the Remove button is rendered while uploadedFile is
\* set, whether or not a request is loading.
handleRemoveFile ==
  /\ client.web.uploadedFile
  /\ client' = [client EXCEPT !.web.documentText = "", !.web.uploadedFile = FALSE,
                              !.web.result = "null", !.web.reviewResult = "null",
                              !.web.error = "null"]
  /\ UNCHANGED server

\* handleBenchmark(playbookId) up to await fetch; BenchmarkPanel enables its
\* button with !loading and a selected playbook, and does not read `disabled`.
handleBenchmark(playbookId) ==
  /\ ~client.web.loading
  /\ client' = [client EXCEPT
       !.web.loading = TRUE, !.web.error = "null", !.web.result = "null",
       !.web.fetch = WebAppBody("benchmark", client.web.documentText, playbookId)]
  /\ UNCHANGED server

\* handleReview up to await fetch; its button needs !loading and a document.
handleReview ==
  /\ ~client.web.loading
  /\ client.web.documentText # ""
  /\ client' = [client EXCEPT
       !.web.loading = TRUE, !.web.error = "null", !.web.reviewResult = "null",
       !.web.fetch = WebAppBody("review", client.web.documentText, Absent)]
  /\ UNCHANGED server

\* handleBenchmark / handleReview after await fetch: setResult(data) or
\* setReviewResult(data) when res.ok, setError otherwise, then
\* setLoading(false).
WebAnswered(status) ==
  /\ client.web.fetch.task # ""
  /\ status \in Answers(client.web.fetch)
  /\ client' = [client EXCEPT
       !.web.result =
          IF status = 200 /\ client.web.fetch.task = "benchmark" THEN "data" ELSE @,
       !.web.reviewResult =
          IF status = 200 /\ client.web.fetch.task = "review" THEN "data" ELSE @,
       !.web.error =
          IF status = 200 THEN @ ELSE AnswerError(status, client.web.fetch.task),
       !.web.loading = FALSE,
       !.web.fetch = NoBody]
  /\ UNCHANGED server

\* handleRunBenchmark of the taskpane up to await fetch, with the text read
\* from the Word document and a playbook of the list; a text shorter than
\* 20 characters is refused without a fetch.
handleRunBenchmark(documentText, selectedPlaybook) ==
  /\ ~client.addin.loading
  /\ client' =
       IF documentText = ""
       THEN [client EXCEPT !.addin.result = "null", !.addin.loading = FALSE,
               !.addin.error = "Document appears empty or too short."]
       ELSE [client EXCEPT !.addin.result = "null", !.addin.loading = TRUE,
               !.addin.error = "null",
               !.addin.fetch = WordAddinBody(documentText, selectedPlaybook)]
  /\ UNCHANGED server

\* handleRunBenchmark after await fetch: setResult(data) when response.ok,
\* else setError(errBody.error), then setLoading(false).
AddinAnswered(status) ==
  /\ client.addin.fetch.task # ""
  /\ status \in Answers(client.addin.fetch)
  /\ client' = [client EXCEPT
       !.addin.result = IF status = 200 THEN "data" ELSE @,
       !.addin.error = IF status = 200 THEN @ ELSE AnswerError(status, "benchmark"),
       !.addin.loading = FALSE,
       !.addin.fetch = NoBody]
  /\ UNCHANGED server

NextClient ==
  \/ handleFile
  \/ \E outcome \in {"text", "throws"} : FileRead(outcome)
  \/ LoadPasted
  \/ \E text \in {"", Doc} : EditDocument(text)
  \/ handleRemoveFile
  \/ \E playbookId \in DOMAIN PLAYBOOKS : handleBenchmark(playbookId)
  \/ handleReview
  \/ \E status \in {200, 400, 404, 500} : WebAnswered(status)
  \/ \E documentText \in {"", Doc}, selectedPlaybook \in DOMAIN PLAYBOOKS :
       handleRunBenchmark(documentText, selectedPlaybook)
  \/ \E status \in {200, 400, 404, 500} : AddinAnswered(status)

ClientSpec == Init /\ [][NextClient]_vars

\* ------------------------------------------------------------------ properties
\* Reading the history of a callLLM invocation.
RECURSIVE CountAttempts(_, _), WaitsOf(_, _)
CountAttempts(trace, i) ==
  IF i > Len(trace) THEN 0
  ELSE (IF trace[i].e = "attempt" THEN 1 ELSE 0) + CountAttempts(trace, i + 1)

WaitsOf(trace, i) ==
  IF i > Len(trace) THEN <<>>
  ELSE (IF trace[i].e = "wait" THEN <<trace[i].n>> ELSE <<>>) \o WaitsOf(trace, i + 1)

Attempts(call) == CountAttempts(call.trace, 1)
Waits(call) == WaitsOf(call.trace, 1)
LastEvent(call) == call.trace[Len(call.trace)]

TRANSIENT == {"RateLimitError", "APIConnectionTimeoutError", "InternalServerError"}

StartsWith(text, head) ==
  Len(head) <= Len(text) /\ SubSeq(text, 1, Len(head)) = head

ContainsText(text, part) ==
  \E i \in 0..(Len(text) - Len(part)) : SubSeq(text, i + 1, i + Len(part)) = part

TextAfter(text, from) == SubSeq(text, from + 1, Len(text))

\* The schema violations of a raw output that parses, formatted.
SchemaErrors(task, raw) ==
  FormatIssues(CheckValue(SchemaOf(task), JSONParse(raw).v, <<>>), 1)

PassesContract(task, raw) ==
  JSONParse(raw).ok /\ CheckValue(SchemaOf(task), JSONParse(raw).v, <<>>) = <<>>

\* C1: a structured result is answered (status 200) only if the most recent
\* raw output callLLM returned parses as JSON and has no violation of the
\* schema of the request's task, and the last pass of the validator found it
\* valid.
C1_OnlyValidatedResults ==
  response.status = 200 =>
    /\ calls # <<>>
    /\ calls[Len(calls)].result = "returned"
    /\ PassesContract(req.task, calls[Len(calls)].raw)
    /\ validations # <<>>
    /\ validations[Len(validations)].cls = "valid"
    /\ validations[Len(validations)].raw = calls[Len(calls)].raw

\* A live request whose first output was invalid and whose corrected output
\* is answered 200.
C1_Witness ==
  /\ ~useMock /\ response.status = 200 /\ Len(validations) = 2
  /\ validations[1].cls = "schema"

\* C2: within one request callLLM is invoked at most twice; the second
\* invocation (the corrective re-prompt) exists only after the first pass of
\* the validator failed, and the validator waits on retryFn only between its
\* first and second pass, whatever the classes of the two failures.
C2_AtMostOneReprompt ==
  /\ Len(calls) <= 2
  /\ Len(validations) <= 2
  /\ Len(calls) = 2 => (validations # <<>> /\ validations[1].cls # "valid")
  /\ pc = "retryFn" => (Len(calls) = 2 /\ Len(validations) = 1 /\ vattempt = 1)
  /\ Len(validations) = 2 => Len(calls) = 2

\* A request whose first output failed on syntax and whose corrected output
\* failed on the schema: two invocations, no third.
C2_Witness ==
  /\ pc = "done" /\ Len(calls) = 2 /\ Len(validations) = 2
  /\ validations[1].cls = "syntax" /\ validations[2].cls = "schema"

\* C3: if the first output is invalid and the corrected output is valid, the
\* request is answered 200 with the data of the second output, and the data
\* text of the second prompt is the original data text (with the document
\* text in it) followed by the diagnostic of the first output; the
\* instruction text is the original one.
C3_CorrectedRequestSucceeds ==
  (Len(validations) = 2 /\ validations[1].cls # "valid" /\ validations[2].cls = "valid") =>
    LET first == calls[1].raw
        second == calls[2].raw
        up1 == calls[1].prompt.userPrompt
        up2 == calls[2].prompt.userPrompt
        note == TextAfter(up2, Len(up1))
    IN /\ response.status = 200
       /\ response.body = DataOf(SchemaOf(req.task), JSONParse(second).v)
       /\ calls[2].prompt.systemPrompt = calls[1].prompt.systemPrompt
       /\ StartsWith(up2, up1)
       /\ ContainsText(up1, <<req.documentText>>)
       /\ IF JSONParse(first).ok
          THEN ContainsText(note, SchemaErrors(req.task, first))
          ELSE ContainsText(note, SYNTAX_FEEDBACK)

\* The first output violates the schema, the corrected one is valid.
C3_Witness ==
  /\ ~useMock /\ Len(validations) = 2 /\ validations[1].cls = "schema"
  /\ validations[2].cls = "valid" /\ response.status = 200
  /\ calls[2].raw # calls[1].raw

\* C4: if the corrected output is invalid too, the request is answered 500
\* with the diagnostics of the second output (its violations, or the excerpt
\* of its text), and callLLM has been invoked exactly twice.
C4_SecondFailureIsTerminal ==
  (Len(validations) = 2 /\ validations[2].cls # "valid") =>
    LET second == calls[2].raw IN
      /\ pc = "done"
      /\ response.status = 500
      /\ Len(calls) = 2
      /\ llm.pc = "idle"
      /\ validations[2].raw = second
      /\ response.message =
           IF JSONParse(second).ok
           THEN <<"LLM output failed validation: ">> \o SchemaErrors(req.task, second)
           ELSE <<"LLM returned invalid JSON: ">> \o Excerpt(second) \o <<"...">>

\* Two invalid outputs with different diagnostics.
C4_Witness ==
  /\ Len(validations) = 2 /\ validations[1].cls = "schema" /\ validations[2].cls = "schema"
  /\ calls[1].raw # calls[2].raw /\ response.status = 500

\* C5: one invocation of callLLM makes at most 3 service attempts.
C5_AtMostThreeAttempts ==
  \A i \in 1..Len(calls) : Attempts(calls[i]) <= 3 /\ llm.attempt <= 3

\* An invocation that used all three attempts.
C5_Witness ==
  \E i \in 1..Len(calls) : Attempts(calls[i]) = 3 /\ calls[i].result = "threw"

\* C6: when the first two attempts of an invocation fail with a retryable
\* error and the third returns content, callLLM returns that content, and
\* its two backoff waits are 1000 ms then 2000 ms, each between the failed
\* attempt and the next attempt.
C6_TwoBackoffsThenSuccess ==
  \A i \in 1..Len(calls) :
    LET t == calls[i].trace IN
      (/\ Len(t) >= 7
       /\ t[2].e = "reply" /\ t[2].s \in TRANSIENT
       /\ t[4].e = "attempt" /\ t[5].e = "reply" /\ t[5].s \in TRANSIENT
       /\ t[Len(t)].e = "reply" /\ t[Len(t)].n = 3 /\ t[Len(t)].s = "content")
      => /\ calls[i].result = "returned"
         /\ calls[i].raw \in SERVICE_CONTENTS
         /\ t = <<EvAttempt(1), t[2], EvWait(1000), EvAttempt(2), t[5], EvWait(2000),
                  EvAttempt(3), EvReply(3, "content")>>
         /\ Waits(calls[i]) = <<1000, 2000>>

\* Two retryable failures, then content, handed on to the validator.
C6_Witness ==
  /\ Len(calls) = 1 /\ calls[1].result = "returned" /\ Attempts(calls[1]) = 3
  /\ pc = "validate" /\ currentRaw = calls[1].raw

\* C7 (as claimed): after the n-th retryable failure callLLM waits
\* BASE_DELAY_MS * 2^(n-1), so three retryable failures give waits of 1000,
\* 2000 and 4000 ms.
C7_BackoffAfterEveryRetryableFailure ==
  \A i \in 1..Len(calls) :
    \A j \in 1..Len(calls[i].trace) :
      LET ev == calls[i].trace[j] IN
        (ev.e = "reply" /\ ev.s \in TRANSIENT) =>
          /\ j < Len(calls[i].trace)
          /\ calls[i].trace[j + 1] = EvWait(1000 * Pow2(ev.n - 1))

\* C8: a non-retryable failure of a service attempt ends the invocation on
\* that attempt: it is the last event of the invocation, which has thrown,
\* with no wait and no attempt after it.
C8_NonRetryableFailsAtOnce ==
  \A i \in 1..Len(calls) :
    \A j \in 1..Len(calls[i].trace) :
      LET ev == calls[i].trace[j] IN
        (ev.e = "reply" /\ ev.s \notin TRANSIENT /\ ev.s # "content") =>
          /\ j = Len(calls[i].trace)
          /\ calls[i].result = "threw"
          /\ Attempts(calls[i]) = ev.n
          /\ Len(Waits(calls[i])) = ev.n - 1

\* A non-retryable failure on the second attempt, one attempt left unused.
C8_Witness ==
  \E i \in 1..Len(calls) :
    /\ Len(calls[i].trace) = 5
    /\ calls[i].trace[5] = EvReply(2, "AuthenticationError")
    /\ calls[i].result = "threw"

\* C9: an invocation of callLLM that fails with a retryable cause has made
\* exactly 3 service attempts.
C9_TransientSurfacesOnlyWhenExhausted ==
  \A i \in 1..Len(calls) :
    (calls[i].result = "threw" /\ LastEvent(calls[i]).e = "reply"
     /\ LastEvent(calls[i]).s \in TRANSIENT)
    => Attempts(calls[i]) = 3 /\ Waits(calls[i]) = <<1000, 2000>>

\* The corrective invocation exhausts its budget on rate limits.
C9_Witness ==
  /\ Len(calls) = 2 /\ calls[2].result = "threw"
  /\ LastEvent(calls[2]) = EvReply(3, "RateLimitError")
  /\ response.status = 500

\* C10: the error of every failed invocation of callLLM embeds the number of
\* service attempts the invocation made and the message of the failure of
\* its last attempt.
C10_FailureEmbedsAttemptsAndCause ==
  \A i \in 1..Len(calls) :
    calls[i].result = "threw" =>
      /\ LastEvent(calls[i]).e = "reply"
      /\ Attempts(calls[i]) \in 1..3
      /\ calls[i].message =
           <<"LLM API call failed after ", ToString(Attempts(calls[i])), " attempt(s): ",
             IF LastEvent(calls[i]).s = "empty" THEN "LLM returned empty response"
             ELSE LastEvent(calls[i]).s>>

\* A failure on the second attempt, surfaced by the route with its message.
C10_Witness ==
  /\ Len(calls) = 1 /\ calls[1].result = "threw" /\ Attempts(calls[1]) = 2
  /\ calls[1].message[2] = "2"
  /\ response.status = 500 /\ response.message = calls[1].message

\* C11: an empty content is a failure of the invocation of callLLM, never a
\* return value: every invocation that returned has a non-empty raw output,
\* an attempt answered with an empty content ends the invocation with the
\* error "LLM returned empty response" (not retried), and no pass of the
\* validator runs over an empty raw output.
C11_EmptyContentIsAFailure ==
  /\ \A i \in 1..Len(calls) :
       /\ calls[i].result = "returned" => calls[i].raw # <<>>
       /\ \A j \in 1..Len(calls[i].trace) :
            LET ev == calls[i].trace[j] IN
              (ev.e = "reply" /\ ev.s = "empty") =>
                /\ j = Len(calls[i].trace)
                /\ calls[i].result = "threw"
                /\ calls[i].message =
                     <<"LLM API call failed after ", ToString(ev.n), " attempt(s): ",
                       "LLM returned empty response">>
  /\ \A k \in 1..Len(validations) : validations[k].raw # <<>>
  /\ pc = "validate" => currentRaw # <<>>

\* The service answers the first attempt with an empty content: the route
\* answers 500 and the validator has not run.
C11_Witness ==
  /\ ~useMock /\ Len(calls) = 1 /\ LastEvent(calls[1]) = EvReply(1, "empty")
  /\ calls[1].result = "threw" /\ validations = <<>> /\ response.status = 500

\* C12: a failed service attempt that is not the last of the budget is
\* followed by a backoff wait if and only if its error is a rate limit, a
\* connection timeout or an upstream server error; any other failure, the
\* empty content included, ends the invocation.
C12_RetryableIffTransient ==
  \A i \in 1..Len(calls) :
    \A j \in 1..Len(calls[i].trace) :
      LET t == calls[i].trace
          ev == t[j]
      IN (ev.e = "reply" /\ ev.s # "content" /\ ev.n < 3) =>
           /\ (j < Len(t) /\ t[j + 1].e = "wait") <=> ev.s \in TRANSIENT
           /\ (j = Len(t) /\ calls[i].result = "threw") <=> ev.s \notin TRANSIENT

\* An upstream server error is retried, the connection error (no timeout)
\* that follows it is not.
C12_Witness ==
  \E i \in 1..Len(calls) :
    /\ Len(calls[i].trace) = 5
    /\ calls[i].trace[2] = EvReply(1, "InternalServerError")
    /\ calls[i].trace[3].e = "wait"
    /\ calls[i].trace[5] = EvReply(2, "APIConnectionError")
    /\ calls[i].result = "threw"

\* The number of service attempts the current invocation of callLLM has used.
AttemptsUsed == IF calls = <<>> THEN 0 ELSE Attempts(calls[Len(calls)])

\* C13 (as claimed): within a request neither the count of service attempts
\* used nor the count of validation attempts used ever returns to an earlier
\* value, the corrective re-prompt included.
C13_CountersNeverReset ==
  [][served' = served => (AttemptsUsed' >= AttemptsUsed /\ vattempt' >= vattempt)]_vars

\* C13 (amended): within a request the count of validation attempts used
\* never decreases, and within one invocation of callLLM the count of service
\* attempts used never decreases and grows by one with each new attempt; the
\* corrective re-prompt is a new invocation whose count starts again at 1.
C13_CountersRestartOnlyWithTheCorrectiveCall ==
  [][served' = served =>
       /\ vattempt' >= vattempt
       /\ Len(calls') = Len(calls) =>
            /\ AttemptsUsed' >= AttemptsUsed
            /\ llm'.attempt >= llm.attempt
       /\ (llm.pc = "backoff" /\ llm'.pc = "inflight") =>
            /\ llm'.attempt = llm.attempt + 1
            /\ AttemptsUsed' = AttemptsUsed + 1
       /\ (Len(calls') > Len(calls) /\ ~useMock) =>
            /\ AttemptsUsed' = 1
            /\ llm'.attempt = 1]_vars

\* The corrective invocation is on its first attempt after the first
\* invocation used three.
C13_Witness ==
  /\ pc = "retryFn" /\ Len(calls) = 2 /\ vattempt = 1
  /\ Attempts(calls[1]) = 3 /\ Attempts(calls[2]) = 1 /\ llm.attempt = 1

\* ------------------------------------------------------------------ the contracts, field by field
\* The paths of the fields of a parsed value that violate the contract of
\* a task: a required field that is absent or of the wrong type, a score
\* outside 0..100, a value outside a closed set, an optional suggestion that
\* is present and no string.
BadString(v) == v.t # "string"
BadNumber(v) == v.t # "number"
BadScore(v) == v.t # "number" \/ v.n < 0 \/ v.n > 100
BadChoice(v, allowed) == v.t # "string" \/ v.s \notin allowed
BadOptionalString(v) == v.t \notin {"undefined", "string"}

SEVERITY_SET == {"critical", "major", "minor", "info"}
DEVIATION_TYPE_SET == {"missing", "weaker", "stronger", "different", "ok"}
RISK_CATEGORY_SET ==
  {"liability", "termination", "intellectual_property", "confidentiality", "payment",
   "data_protection", "governing_law", "indemnification", "non_compete", "general"}

ListKey(task) == IF task = "review" THEN "findings" ELSE "deviations"

BadTopFields(task, v) ==
  IF task = "review"
  THEN {f \in {"riskScore"} : BadScore(Get(v, f))}
       \cup {f \in {"totalFindings"} : BadNumber(Get(v, f))}
       \cup {f \in {"summary", "documentType"} : BadString(Get(v, f))}
  ELSE {f \in {"alignmentScore"} : BadScore(Get(v, f))}
       \cup {f \in {"totalClauses"} : BadNumber(Get(v, f))}
       \cup {f \in {"summary", "playbook"} : BadString(Get(v, f))}

BadItemFields(task, item) ==
  IF task = "review"
  THEN {f \in {"title", "documentExcerpt", "explanation", "locationHint"} :
          BadString(Get(item, f))}
       \cup {f \in {"riskCategory"} : BadChoice(Get(item, f), RISK_CATEGORY_SET)}
       \cup {f \in {"severity"} : BadChoice(Get(item, f), SEVERITY_SET)}
       \cup {f \in {"suggestedAlternative"} : BadOptionalString(Get(item, f))}
  ELSE {f \in {"clauseTitle", "documentExcerpt", "standardExcerpt", "explanation",
               "locationHint"} : BadString(Get(item, f))}
       \cup {f \in {"deviationType"} : BadChoice(Get(item, f), DEVIATION_TYPE_SET)}
       \cup {f \in {"severity"} : BadChoice(Get(item, f), SEVERITY_SET)}
       \cup {f \in {"suggestedFix"} : BadOptionalString(Get(item, f))}

Violations(task, v) ==
  IF v.t # "object" THEN {<<>>}
  ELSE LET list == Get(v, ListKey(task)) IN
         {<<f>> : f \in BadTopFields(task, v)}
         \cup (IF list.t # "array" THEN {<<ListKey(task)>>}
               ELSE UNION {IF list.items[i].t # "object"
                           THEN {<<ListKey(task), ToString(i - 1)>>}
                           ELSE {<<ListKey(task), ToString(i - 1), f>> :
                                   f \in BadItemFields(task, list.items[i])} :
                           i \in 1..Len(list.items)})

LastPass == unit.passes[Len(unit.passes)]

\* The terminal error of a pass over raw, as the validator words it.
TerminalError(task, raw) ==
  IF JSONParse(raw).ok
  THEN <<"LLM output failed validation: ">> \o SchemaErrors(task, raw)
  ELSE <<"LLM returned invalid JSON: ">> \o Excerpt(raw) \o <<"...">>

\* C14: a validator called without a retryFn never hands feedback to anyone
\* and makes one pass only; if that pass fails, the call is rejected on
\* attempt 1 with the diagnostics of that very output, and no invocation of
\* callLLM has been made.
C14_NoRetryFnFailsAtOnce ==
  ~unit.hasRetryFn =>
    /\ unit.state \in {"idle", "ready", "resolved", "rejected"}
    /\ unit.feedbacks = <<>>
    /\ Len(unit.passes) <= 1
    /\ calls = <<>>
    /\ (unit.passes # <<>> /\ unit.passes[1].cls # "valid") =>
         /\ unit.state = "rejected"
         /\ unit.attempt = 1
         /\ unit.message = TerminalError(unit.task, unit.passes[1].raw)

\* A benchmark validator without retryFn rejects an output that violates
\* the schema.
C14_Witness ==
  /\ unit.state = "rejected" /\ ~unit.hasRetryFn /\ unit.task = "benchmark"
  /\ unit.passes[1].cls = "schema"

\* C15: a pass of the validator accepts an output if and only if the output
\* parses and no field anywhere in it violates the contract; the call
\* resolves (with data) exactly when its last pass accepted, and carries no
\* data otherwise.
C15_NoPartialSuccess ==
  /\ \A k \in 1..Len(unit.passes) :
       LET parsed == JSONParse(unit.passes[k].raw) IN
         unit.passes[k].cls = "valid"
           <=> (parsed.ok /\ Violations(unit.task, parsed.v) = {})
  /\ unit.state = "resolved" <=> (unit.passes # <<>> /\ LastPass.cls = "valid")
  /\ unit.state = "resolved" => unit.data.t = "object"
  /\ unit.state # "resolved" => unit.data = NullV

\* The only violation is the severity of the second deviation: rejected.
C15_Witness ==
  /\ unit.state = "rejected" /\ unit.task = "benchmark" /\ unit.passes # <<>>
  /\ JSONParse(LastPass.raw).ok
  /\ Violations("benchmark", JSONParse(LastPass.raw).v) = {<<"deviations", "1", "severity">>}

\* Reading a diagnostic text back: where its entries start (the entries
\* are separated by "; "), the entry that starts at a position, and the path
\* of an entry (what stands before its first ": ", joined with ".").
EntryStarts(text) == {1} \cup {i + 1 : i \in {j \in 1..Len(text) : text[j] = "; "}}

EntryAt(text, from) ==
  LET stops == {j \in from..Len(text) : text[j] = "; "} \cup {Len(text) + 1}
      stop == CHOOSE j \in stops : \A other \in stops : j <= other
  IN SubSeq(text, from, stop - 1)

WellFormedEntry(entry) == \E k \in 1..(Len(entry) - 1) : entry[k] = ": "

EntryPath(entry) ==
  LET k == CHOOSE k \in 1..Len(entry) :
             entry[k] = ": " /\ \A j \in 1..(k - 1) : entry[j] # ": "
  IN SelectSeq(SubSeq(entry, 1, k - 1), LAMBDA f : f # ".")

DiagnosticsMatch(errors, task, raw) ==
  LET starts == EntryStarts(errors)
      want == Violations(task, JSONParse(raw).v)
  IN /\ \A from \in starts : WellFormedEntry(EntryAt(errors, from))
     /\ Cardinality(starts) = Cardinality(want)
     /\ {EntryPath(EntryAt(errors, from)) : from \in starts} = want

\* C16: the diagnostics of an output that violates the schema have one
\* entry "<field path>: <message>" per violating field and name every
\* violating field path, in the feedback handed to retryFn and in the
\* terminal error alike.
C16_DiagnosticsListEveryViolation ==
  /\ (unit.feedbacks # <<>> /\ unit.passes[1].cls = "schema") =>
       LET fb == unit.feedbacks[1] IN
         /\ fb[1] = "Your previous response had validation errors: "
         /\ DiagnosticsMatch(SubSeq(fb, 2, Len(fb) - 1), unit.task, unit.passes[1].raw)
  /\ (unit.state = "rejected" /\ unit.message # RetryFnError /\ unit.passes # <<>>
      /\ LastPass.cls = "schema") =>
         /\ unit.message[1] = "LLM output failed validation: "
         /\ DiagnosticsMatch(TextAfter(unit.message, 1), unit.task, LastPass.raw)

\* A first output with more than two violations (fed back), then a second
\* output with two (the terminal error).
C16_Witness ==
  /\ unit.state = "rejected" /\ Len(unit.passes) = 2 /\ Len(unit.feedbacks) = 1
  /\ unit.passes[1].cls = "schema" /\ unit.passes[2].cls = "schema"
  /\ Cardinality(Violations(unit.task, JSONParse(unit.passes[1].raw).v)) > 2
  /\ Cardinality(Violations(unit.task, JSONParse(unit.passes[2].raw).v)) = 2

\* Equality of two values as JavaScript objects: the order in which the
\* members of an object were written does not count.
RECURSIVE EqualValue(_, _)
EqualValue(a, b) ==
  /\ a.t = b.t
  /\ CASE a.t = "array" ->
            /\ Len(a.items) = Len(b.items)
            /\ \A i \in 1..Len(a.items) : EqualValue(a.items[i], b.items[i])
       [] a.t = "object" ->
            /\ {a.items[i].k : i \in 1..Len(a.items)} = {b.items[i].k : i \in 1..Len(b.items)}
            /\ \A i \in 1..Len(a.items) : EqualValue(a.items[i].v, Get(b, a.items[i].k))
       [] OTHER -> a = b

\* C17: when the raw output is the serialization of a payload that matches
\* the contract of the task, the first pass of the validator accepts it and
\* the call resolves with a value equal to the payload, no feedback handed
\* to retryFn and no invocation of callLLM.
C17_RoundTrip ==
  (unit.payload.t # "undefined" /\ Violations(unit.task, unit.payload) = {}
   /\ unit.passes # <<>>) =>
    /\ unit.passes[1].raw = JSONStringify(unit.payload)
    /\ unit.passes[1].cls = "valid"
    /\ Len(unit.passes) = 1
    /\ unit.state = "resolved"
    /\ EqualValue(unit.data, unit.payload)
    /\ unit.feedbacks = <<>>
    /\ calls = <<>>

\* A benchmark payload of two deviations, one with a suggested fix and one
\* without, comes back with its members in the order of the schema.
C17_Witness ==
  /\ unit.state = "resolved" /\ unit.task = "benchmark"
  /\ Len(Get(unit.payload, "deviations").items) = 2
  /\ HasKey(Get(unit.payload, "deviations").items[1], "suggestedFix")
  /\ ~HasKey(Get(unit.payload, "deviations").items[2], "suggestedFix")
  /\ unit.data # unit.payload

\* C18: a raw output that JSON.parse rejects gives a syntax-class pass, never
\* a schema-class one, and the failure is handled: on the first pass of a
\* validator with a retryFn it becomes the syntax feedback, otherwise the
\* call is rejected with the 'invalid JSON' error that quotes the output.
C18_ParseFailureIsHandled ==
  \A k \in 1..Len(unit.passes) :
    LET pass == unit.passes[k] IN
      ~JSONParse(pass.raw).ok =>
        /\ pass.cls = "syntax"
        /\ IF k = 1 /\ unit.hasRetryFn
           THEN Len(unit.feedbacks) = 1 /\ unit.feedbacks[1] = SYNTAX_FEEDBACK
           ELSE /\ k = Len(unit.passes)
                /\ unit.state = "rejected"
                /\ unit.message =
                     <<"LLM returned invalid JSON: ">> \o Excerpt(pass.raw) \o <<"...">>

\* Prose first, a cut payload after the feedback: two syntax failures.
C18_Witness ==
  /\ unit.state = "rejected" /\ Len(unit.passes) = 2
  /\ unit.passes[1].cls = "syntax" /\ unit.passes[2].cls = "syntax"
  /\ unit.passes[1].raw # unit.passes[2].raw /\ unit.passes[1].raw # <<>>

\* An output that follows the OUTPUT FORMAT of the instruction text of a
\* task: every key of the format, each value in a form the format permits.
SeqSet(seq) == {seq[i] : i \in 1..Len(seq)}

InScoreRange(v) ==
  v.t = "number" /\ v.n >= PROMPT_SCORE_RANGE.lo /\ v.n <= PROMPT_SCORE_RANGE.hi

Chosen(v, permitted) == v.t = "string" /\ v.s \in SeqSet(permitted)

FollowsFormat(task, v) ==
  /\ v.t = "object"
  /\ Get(v, "summary").t = "string"
  /\ Get(v, ListKey(task)).t = "array"
  /\ IF task = "review"
     THEN /\ InScoreRange(Get(v, "riskScore"))
          /\ Get(v, "totalFindings").t = "number"
          /\ Get(v, "documentType").t = "string"
          /\ \A i \in 1..Len(Get(v, "findings").items) :
               LET item == Get(v, "findings").items[i] IN
                 /\ item.t = "object"
                 /\ \A f \in {"title", "documentExcerpt", "explanation", "locationHint"} :
                      Get(item, f).t = "string"
                 /\ Chosen(Get(item, "riskCategory"), PROMPT_RISK_CATEGORIES)
                 /\ Chosen(Get(item, "severity"), PROMPT_SEVERITIES)
                 /\ Get(item, "suggestedAlternative").t \in PROMPT_SUGGESTED_ALTERNATIVE_FORMS
     ELSE /\ InScoreRange(Get(v, "alignmentScore"))
          /\ Get(v, "totalClauses").t = "number"
          /\ Get(v, "playbook").t = "string"
          /\ \A i \in 1..Len(Get(v, "deviations").items) :
               LET item == Get(v, "deviations").items[i] IN
                 /\ item.t = "object"
                 /\ \A f \in {"clauseTitle", "documentExcerpt", "standardExcerpt",
                              "explanation", "locationHint"} : Get(item, f).t = "string"
                 /\ Chosen(Get(item, "deviationType"), PROMPT_DEVIATION_TYPES)
                 /\ Chosen(Get(item, "severity"), PROMPT_SEVERITIES)
                 /\ Get(item, "suggestedFix").t \in PROMPT_SUGGESTED_FIX_FORMS

\* C19 (as claimed): the closed sets of the instruction text are those of the
\* schema, and every output that follows the OUTPUT FORMAT of the
\* instruction text of its task, a null suggestion included, is accepted by
\* the validator of that task.
C19_FormatAndSchemaNeverDrift ==
  /\ SeqSet(PROMPT_DEVIATION_TYPES) = SeqSet(DEVIATION_TYPES)
  /\ SeqSet(PROMPT_SEVERITIES) = SeqSet(SEVERITIES)
  /\ SeqSet(PROMPT_RISK_CATEGORIES) = SeqSet(RISK_CATEGORIES)
  /\ \A k \in 1..Len(unit.passes) :
       LET parsed == JSONParse(unit.passes[k].raw) IN
         (parsed.ok /\ FollowsFormat(unit.task, parsed.v)) => unit.passes[k].cls = "valid"

\* C20: with the stand-in, every invocation of callLLM returns with no
\* service attempt and no wait, and what it returns satisfies the contract
\* of the task of the request; every request that passes the request check
\* (and names a registered playbook) is answered 200 after one invocation
\* and one pass of the validator.
C20_StandInAlwaysSucceeds ==
  useMock =>
    /\ \A i \in 1..Len(calls) :
         /\ calls[i].trace = <<>>
         /\ calls[i].result = "returned"
         /\ PassesContract(req.task, calls[i].raw)
    /\ Len(calls) <= 1
    /\ response.status = 500 => (req.task = "benchmark" /\ req.playbook \notin DOMAIN PLAYBOOKS)
    /\ (pc = "done" /\ RequestValid(req)
        /\ (req.task = "benchmark" => req.playbook \in DOMAIN PLAYBOOKS)) =>
         /\ response.status = 200
         /\ Len(calls) = 1
         /\ Len(validations) = 1

\* A benchmark request then a review request, both answered 200 by the
\* stand-in.
C20_Witness ==
  /\ useMock /\ served = 2 /\ pc = "done" /\ req.task = "review"
  /\ response.status = 200 /\ Len(calls) = 1

\* C21: a request has at most one response written; it is written exactly
\* when the handler is done, and it is either the validated result (status
\* 200, no error text) or an error (status 400, 404 or 500 with its error
\* text, and for 500 the message of the failure), never both.
C21_ExactlyOneOutcome ==
  /\ response.sent <= 1
  /\ pc = "done" <=> response.sent = 1
  /\ response.sent = 0 => response = NoResponse
  /\ response.sent = 1 =>
       IF response.status = 200
       THEN response.body.t = "object" /\ response.error = <<>> /\ response.message = <<>>
       ELSE /\ response.status \in {400, 404, 500}
            /\ response.body = NullV
            /\ response.error # <<>>
            /\ response.status = 500 => response.message # <<>>

\* The second request of the server ends on the terminal error of its second
\* invalid output: one response.
C21_Witness ==
  /\ served = 2 /\ pc = "done" /\ response.status = 500 /\ response.sent = 1
  /\ Len(validations) = 2

\* C27: the pair the route built is the pair of the first invocation and
\* stays what it was after the corrective invocation; the corrective
\* invocation gets another pair, with the same instruction text and with the
\* original data text followed by the correction note.
C27_PromptPairNeverMutated ==
  /\ calls # <<>> =>
       /\ calls[1].prompt = prompt
       /\ prompt = IF req.task = "benchmark"
                   THEN buildBenchmarkPrompt(req.documentText, PLAYBOOKS[req.playbook])
                   ELSE buildReviewPrompt(req.documentText, req.jurisdiction)
  /\ Len(calls) = 2 =>
       /\ calls[2].prompt # prompt
       /\ calls[2].prompt.systemPrompt = prompt.systemPrompt
       /\ calls[2].prompt.userPrompt =
            prompt.userPrompt \o <<"\n\nIMPORTANT CORRECTION: ">>
            \o ValidateOnce(req.task, calls[1].raw).feedback

\* A request answered after its corrective invocation: the route's pair is
\* still the pair of the first invocation.
C27_Witness ==
  /\ pc = "done" /\ Len(calls) = 2 /\ calls[2].result = "returned"
  /\ calls[1].prompt = prompt /\ response.status = 200

\* C29: an attempt n answered with an empty content is the last event of its
\* invocation: the invocation has thrown with attempt count n, having made n
\* attempts and only the n - 1 waits that came before.
C29_EmptyContentIsNotRetried ==
  \A i \in 1..Len(calls) :
    \A j \in 1..Len(calls[i].trace) :
      LET ev == calls[i].trace[j] IN
        (ev.e = "reply" /\ ev.s = "empty") =>
          /\ ev.n \in 1..3
          /\ j = Len(calls[i].trace)
          /\ calls[i].result = "threw"
          /\ Attempts(calls[i]) = ev.n
          /\ Len(Waits(calls[i])) = ev.n - 1
          /\ calls[i].message[2] = ToString(ev.n)

\* A rate limit on attempt 1, an empty content on attempt 2: the invocation
\* fails there, the third attempt is not made.
C29_Witness ==
  /\ Len(calls) = 1 /\ calls[1].result = "threw"
  /\ calls[1].trace[2] = EvReply(1, "RateLimitError")
  /\ LastEvent(calls[1]) = EvReply(2, "empty")
  /\ response.status = 500

RECURSIVE TotalAttempts(_), TotalWaits(_)
TotalAttempts(i) == IF i > Len(calls) THEN 0 ELSE Attempts(calls[i]) + TotalAttempts(i + 1)
TotalWaits(i) == IF i > Len(calls) THEN 0 ELSE Len(Waits(calls[i])) + TotalWaits(i + 1)

\* C30: a request makes at most 6 service attempts and 4 backoff waits, 3
\* and 2 per invocation; in the corrective invocation a retryable failure on
\* attempt 1 or 2 is followed by a wait whatever the first invocation used;
\* the retries of the first invocation leave the validator's counter
\* untouched, and a first output that is invalid is always followed by the
\* corrective invocation.
C30_BudgetsAreNested ==
  /\ TotalAttempts(1) <= 6
  /\ TotalWaits(1) <= 4
  /\ \A i \in 1..Len(calls) : Attempts(calls[i]) <= 3 /\ Len(Waits(calls[i])) <= 2
  /\ Len(calls) = 2 =>
       \A j \in 1..Len(calls[2].trace) :
         LET ev == calls[2].trace[j] IN
           (ev.e = "reply" /\ ev.s \in TRANSIENT /\ ev.n < 3) =>
             (j < Len(calls[2].trace) /\ calls[2].trace[j + 1].e = "wait")
  /\ pc = "callLLM" => (vattempt = 0 /\ validations = <<>> /\ Len(calls) = 1)
  /\ pc = "retryFn" => vattempt = 1
  /\ (validations # <<>> /\ validations[1].cls # "valid") => Len(calls) = 2

\* Both invocations of a request use their three attempts.
C30_Witness ==
  /\ Len(calls) = 2 /\ Attempts(calls[1]) = 3 /\ Attempts(calls[2]) = 3
  /\ TotalAttempts(1) = 6 /\ TotalWaits(1) = 4

\* The first k units of a raw output, as text.
PrefixText(raw, k) == [i \in 1..k |-> TokenText(raw[i])]

\* A text carries an excerpt of a raw output: a prefix of it, of at most 200
\* units (all of it when it is shorter).
CarriesExcerpt(text, raw) ==
  \E k \in 1..200 : k <= Len(raw) /\ ContainsText(text, PrefixText(raw, k))

\* The validator has thrown on a pass of its own, which found no JSON text.
SyntaxTerminal ==
  /\ unit.state = "rejected" /\ Len(unit.passes) > Len(unit.feedbacks)
  /\ LastPass.cls = "syntax"

\* C28 as stated: for an output that does not parse and is not empty, the
\* feedback handed to the corrective call and the terminal error both carry
\* a prefix of that output of at most 200 units.
C28_FeedbackAndErrorCarryExcerpt ==
  /\ \A i \in 1..Len(unit.feedbacks) :
       (unit.passes[i].cls = "syntax" /\ unit.passes[i].raw # <<>>) =>
         CarriesExcerpt(unit.feedbacks[i], unit.passes[i].raw)
  /\ (SyntaxTerminal /\ LastPass.raw # <<>>) => CarriesExcerpt(unit.message, LastPass.raw)

\* C28, amended: the terminal error of a syntax failure is a fixed message,
\* then the prefix of the output that failed to parse, 200 units of it or
\* all of it when it is shorter, then an ellipsis; the feedback handed to
\* the corrective call is one fixed message, the same for every output, and
\* carries no excerpt of it.
C28_ErrorCarriesExcerptFeedbackIsFixed ==
  /\ SyntaxTerminal =>
       LET raw == LastPass.raw
           k == IF Len(raw) < 200 THEN Len(raw) ELSE 200
       IN /\ unit.message = <<"LLM returned invalid JSON: ">> \o PrefixText(raw, k) \o <<"...">>
          /\ Len(unit.message) <= 202
  /\ \A i \in 1..Len(unit.feedbacks) :
       unit.passes[i].cls = "syntax" =>
         /\ Len(unit.feedbacks[i]) = 1
         /\ ~CarriesExcerpt(unit.feedbacks[i], unit.passes[i].raw)
         /\ \A j \in 1..Len(unit.feedbacks) :
              unit.passes[j].cls = "syntax" => unit.feedbacks[j] = unit.feedbacks[i]

\* An output longer than the limit fails to parse on the last pass: the
\* error carries 200 units of it, not all.
C28_Witness ==
  /\ SyntaxTerminal /\ Len(LastPass.raw) > 200
  /\ Len(unit.message) = 202

\* What the instruction text holds between the line naming the playbook and
\* the OUTPUT FORMAT: the text is the header, the playbook's name, the end
\* of that line, the clause section, and the five parts of the format.
ClauseSection(systemPrompt) == SubSeq(systemPrompt, 4, Len(systemPrompt) - 5)

\* C26 as stated: for a playbook without clauses buildBenchmarkPrompt
\* returns, and the clause section of its instruction text is not empty: it
\* states that there are no standard clauses.
C26_ZeroClausesAreStated ==
  (composer.state = "returned" /\ composer.playbook.clauses = <<>>) =>
    /\ composer.prompt # NoPrompt
    /\ ClauseSection(composer.prompt.systemPrompt) # <<>>

\* C25 as stated: the mode is the one the credential of startup selects, and
\* every invocation of callLLM builds its client with the credential of
\* startup and names, in each of its service attempts, the model the
\* override of startup selects, whatever the environment holds by then.
C25_ConfigurationReadOnceAtStartup ==
  /\ useMock = UseMockOf(env.atStartup)
  /\ ~useMock =>
       \A i \in 1..Len(calls) :
         /\ calls[i].apiKey = env.atStartup.OPENAI_API_KEY
         /\ \A k \in 1..Len(calls[i].models) : calls[i].models[k] = ModelOf(env.atStartup)

RECURSIVE AttemptsIn(_), WaitsIn(_)
AttemptsIn(history) ==
  IF history = <<>> THEN 0 ELSE Attempts(Head(history)) + AttemptsIn(Tail(history))
WaitsIn(history) ==
  IF history = <<>> THEN 0 ELSE Len(Waits(Head(history))) + WaitsIn(Tail(history))

\* C23 as stated: once the caller has abandoned the request, the request
\* makes no service attempt, no backoff wait and no corrective invocation
\* beyond those it had made by then.
C23_NothingFollowsAnAbort ==
  abandoned.closed =>
    /\ AttemptsIn(calls) = AttemptsIn(abandoned.calls)
    /\ WaitsIn(calls) = WaitsIn(abandoned.calls)
    /\ Len(calls) = Len(abandoned.calls)

\* The trace of an invocation numbers its attempts 1, 2, 3, answers each
\* under its number, and waits 1000 ms after the first and 2000 ms after
\* the second.
AttemptsUpTo(trace, j) == Cardinality({k \in 1..j : trace[k].e = "attempt"})

OwnTrace(trace) ==
  \A j \in 1..Len(trace) :
    LET n == AttemptsUpTo(trace, j) IN
      /\ trace[j].e \in {"attempt", "reply"} => trace[j].n = n
      /\ trace[j].e = "wait" => trace[j].n = 1000 * Pow2(n - 1)

\* What a handler holds is what its own request and the service responses
\* to its own calls make of it: its prompts are built from its own body and
\* from the feedback on its own first output, its attempts are counted from
\* 1 in each of its invocations, its validator reads the outputs of its own
\* invocations, and its response is the data of its own last output, or the
\* error of its own last invocation or validation.
OwnHistoryOnly(h) ==
  LET task == h.req.task
      built == IF task = "review"
               THEN buildReviewPrompt(h.req.documentText, h.req.jurisdiction)
               ELSE buildBenchmarkPrompt(h.req.documentText, PLAYBOOKS[h.req.playbook])
      last == h.calls[Len(h.calls)]
  IN /\ h.pc = "idle" => (h.calls = <<>> /\ h.response = NoResponse)
     /\ h.pc # "idle" =>
          /\ Len(h.calls) \in 1..2
          /\ h.prompt = built
          /\ h.calls[1].prompt = built
          /\ Len(h.calls) = 2 =>
               /\ h.calls[1].result = "returned"
               /\ h.calls[2].prompt =
                    CorrectedPrompt(built, ValidateOnce(task, h.calls[1].raw).feedback)
          /\ \A i \in 1..Len(h.calls) : OwnTrace(h.calls[i].trace)
          /\ h.pc \in {"callLLM", "retryFn"} =>
               /\ h.llm.prompt = last.prompt
               /\ h.llm.pc \in {"inflight", "backoff"} =>
                    (last.result = "pending" /\ h.llm.attempt = Attempts(last))
               /\ h.llm.pc = "returned" => (last.result = "returned" /\ h.llm.raw = last.raw)
               /\ h.llm.pc = "threw" => (last.result = "threw" /\ h.llm.message = last.message)
          /\ \A i \in 1..Len(h.validations) : h.validations[i].raw = h.calls[i].raw
          /\ h.pc = "validate" => h.currentRaw = last.raw
          /\ h.pc = "done" =>
               IF last.result = "threw"
               THEN h.response.status = 500 /\ h.response.message = last.message
               ELSE LET r == ValidateOnce(task, last.raw) IN
                      /\ last.result = "returned"
                      /\ r.cls = "valid" => (h.response.status = 200 /\ h.response.body = r.data)
                      /\ r.cls # "valid" =>
                           (h.response.status = 500 /\ h.response.message = r.message
                            /\ Len(h.calls) = 2)

\* The steps of the running handler that begin a request or end an await.
OwnStep ==
  \/ \E body \in FEW_BODIES : pc = "idle" /\ HandleRequest(body)
  \/ \E outcome \in {Content(GoodBenchmark), Rejection("RateLimitError")} : ServiceReply(outcome)
  \/ BackoffElapsed
  \/ ResumeRoute
  \/ ResumeValidator

\* C22: with two requests in flight, each handler holds only what its own
\* request and the responses to its own calls produce; whenever the running
\* handler is suspended in a service call or a backoff wait, control can pass
\* to the other; and whatever the other is suspended in, the running handler
\* can begin its request and can end each of its own awaits (the validation
\* between two awaits runs without a pause).
C22_ConcurrentRequestsAreIsolated ==
  parked.slot # 0 =>
    /\ OwnHistoryOnly(Context)
    /\ OwnHistoryOnly(parked)
    /\ llm.pc \in {"inflight", "backoff"} => ENABLED Yield
    /\ (parked.llm.pc \in {"inflight", "backoff"} /\ pc \notin {"done", "validate"}) =>
         ENABLED OwnStep

\* One request has been answered while the other, which arrived first and
\* was rate-limited, is still in its backoff wait.
C22_Witness ==
  /\ parked.slot = 1 /\ parked.llm.pc = "backoff" /\ parked.pc = "callLLM"
  /\ pc = "done" /\ response.status = 200 /\ req.task # parked.req.task
  /\ Attempts(calls[1]) = 1

\* The errors thrown after the loops of callLLM and of the validators.
FALL_THROUGH ==
  {<<"LLM call exhausted all retries">>, <<"Validation exhausted all retries">>}

\* C31: a request that has entered the pipeline is eventually answered, with
\* the result (200) or with a failure (500), and neither an invocation nor a
\* response ever carries one of the two errors that follow the loops.
C31_EveryRequestTerminates ==
  /\ [](/\ response.message \notin FALL_THROUGH
        /\ llm.message \notin FALL_THROUGH
        /\ \A i \in 1..Len(calls) : calls[i].message \notin FALL_THROUGH)
  /\ (pc \notin {"idle", "done"}) ~> (pc = "done" /\ response.status \in {200, 500})

\* A request answered after both invocations ran to their last attempt and
\* the second output was invalid too.
C31_Witness ==
  /\ pc = "done" /\ response.status = 500 /\ Len(calls) = 2
  /\ Attempts(calls[1]) = 3 /\ Attempts(calls[2]) = 3
  /\ Len(validations) = 2 /\ validations[2].cls # "valid"

\* C32: the validator only ever reads the output an invocation returned.  An
\* invocation that threw is the last of its request; if it was the first,
\* no pass of the validator was made; if it was the corrective one, only
\* the pass before it was made; and the request is answered 500 with the
\* error of that invocation and no result.
C32_ValidationNeedsAnOutput ==
  /\ \A i \in 1..Len(validations) :
       /\ i <= Len(calls) /\ calls[i].result = "returned"
       /\ validations[i].raw = calls[i].raw
  /\ pc = "validate" => (calls[Len(calls)].result = "returned"
                         /\ currentRaw = calls[Len(calls)].raw)
  /\ \A i \in 1..Len(calls) :
       calls[i].result = "threw" =>
         /\ i = Len(calls)
         /\ Len(validations) = i - 1
         /\ pc \in {"callLLM", "retryFn", "done"}
         /\ pc = "done" =>
              /\ response.status = 500 /\ response.body = NullV
              /\ response.message = calls[i].message
              /\ response.message[1] = "LLM API call failed after "

\* The corrective invocation was rejected by the service, the request is
\* answered with that error.
C32_Witness ==
  /\ pc = "done" /\ Len(calls) = 2 /\ calls[2].result = "threw"
  /\ Len(validations) = 1 /\ response.status = 500

\* What a rejected request leaves behind: no prompt, no invocation of
\* callLLM, no pass of a validator.
PipelineUntouched ==
  /\ prompt = NoPrompt /\ calls = <<>> /\ validations = <<>>
  /\ llm = LLMIdle /\ currentRaw = <<>> /\ vattempt = 0

\* C33 as stated: a benchmark request whose documentText or playbook is missing or
\* empty is answered 400, one that names a playbook the store does not hold
\* is answered 404, both without a prompt and without an invocation of
\* callLLM; a request that is in the pipeline has a document and a
\* playbook of the store.
C33_RejectedRequestsStayOutside ==
  LET unusable == req.documentText \in {Absent, ""} \/ req.playbook \in {Absent, ""}
      unknown == ~unusable /\ req.playbook \notin {"nda-standard", "service-agreement"}
  IN req.task = "benchmark" =>
       /\ (pc = "done" /\ unusable) =>
            (response.status = 400 /\ response.body = NullV /\ PipelineUntouched)
       /\ (pc = "done" /\ unknown) =>
            (response.status = 404 /\ response.body = NullV /\ PipelineUntouched)
       /\ pc \notin {"idle", "done"} => (~unusable /\ ~unknown /\ prompt # NoPrompt)
       /\ (pc = "done" /\ response.status \in {400, 404}) => PipelineUntouched

\* C34 as stated: the result the stand-in yields for a benchmark request
\* against a playbook of the store names that playbook.
C34_StandInNamesTheRequestedPlaybook ==
  (useMock /\ pc = "done" /\ response.status = 200 /\ req.task = "benchmark") =>
    Get(response.body, "playbook") = StrV(PLAYBOOKS[req.playbook].name)

\* What the service gave a handler: per invocation, the kinds of its replies
\* in order, and the content of the last.
RepliesTo(h) ==
  [i \in 1..Len(h.calls) |->
     LET replies == SelectSeq(h.calls[i].trace, LAMBDA ev : ev.e = "reply")
     IN [kinds |-> [j \in 1..Len(replies) |-> replies[j].s], raw |-> h.calls[i].raw]]

C36_AddinRequestPassesLikeTheWebApps ==
  (/\ client.addin.fetch.task = "benchmark"
   /\ client.web.fetch.task = "benchmark"
   /\ client.addin.fetch.documentText = client.web.fetch.documentText
   /\ client.addin.fetch.documentText # ""
   /\ client.addin.fetch.playbookId = client.web.fetch.playbook
   /\ client.web.fetch.playbook \in DOMAIN PLAYBOOKS) =>
    /\ 400 \notin Answers(client.web.fetch)
    /\ 400 \notin Answers(client.addin.fetch)

\* C37 as stated: while the web app has no document loaded (no text and no
\* uploaded file, as initially and after Remove), it holds neither a
\* benchmark result nor a review result.
C37_NoDocumentNoResult ==
  (client.web.documentText = "" /\ ~client.web.uploadedFile) =>
    (client.web.result = "null" /\ client.web.reviewResult = "null")

====
